---- MODULE Spec2Model ----
(***************************************************************************)
(* Compass scoring and matchmaking engine of civic-backend.                *)
(*                                                                         *)
(* Numbers.  JavaScript numbers are modelled as exact rationals: a pair    *)
(* <<n, d>> in lowest terms with d > 0.  Square roots are never computed   *)
(* numerically: a match score is kept in the closed form                   *)
(* (C + sqrt(A) - sqrt(B)) / M with integers A, B, C, M and every          *)
(* comparison and the 3-decimal rounding of toFixed(3) is decided exactly  *)
(* on that form.  IEEE-754 rounding error is outside the model.            *)
(*                                                                         *)
(* Strings are sequences of one-character strings.                         *)
(***************************************************************************)
EXTENDS Integers, Sequences, FiniteSets, TLC

VARIABLES
    userResponse,      \* table UserResponse, a set of rows
    compassEntry,      \* table CompassEntry, in creation order (createdAt ascending)
    sharingMode,       \* User.sharingMode
    matchThreshold,    \* User.matchThreshold (NullNum when unset)
    connectionRequest, \* table ConnectionRequest, a set of rows
    poke,              \* table Poke, a set of rows
    encryptedMessage,  \* table EncryptedMessage, in creation order
    chatPublicKey,     \* User.chatPublicKey (Null when unset)
    out                \* the call served last: its arguments and what it returned

chatVars == <<poke, encryptedMessage, chatPublicKey>>

vars == <<userResponse, compassEntry, sharingMode, matchThreshold,
          connectionRequest, chatVars, out>>

dbVars == <<userResponse, compassEntry, sharingMode, matchThreshold, connectionRequest,
           chatVars>>

Null == "null"        \* null / undefined where a string is expected
NullNum == <<>>       \* null / undefined where a number is expected
NoAnswer == <<>>      \* no UserResponse row for the (user, question) pair
(* What out holds after a call whose return value no property reads.        *)
NoCall == [op |-> "none"]

-----------------------------------------------------------------------------
(* Exact rational arithmetic *)

Abs(x) == IF x < 0 THEN -x ELSE x

RECURSIVE Gcd(_, _)
Gcd(a, b) == IF b = 0 THEN a ELSE Gcd(b, a % b)

(* A zero denominator stands for the non-finite results of a division by   *)
(* zero: <<0, 0>> is NaN, <<1, 0>> is Infinity, <<-1, 0>> is -Infinity.     *)
NaN == <<0, 0>>
IsNaN(x) == x = NaN

Rat(n, d) ==
    IF d = 0 THEN <<(IF n > 0 THEN 1 ELSE IF n < 0 THEN -1 ELSE 0), 0>>
    ELSE LET g == Gcd(Abs(n), Abs(d))
             s == IF d < 0 THEN -1 ELSE 1
         IN  <<(s * n) \div g, (s * d) \div g>>

Zero == <<0, 1>>
One == <<1, 1>>
MinusOne == <<-1, 1>>

RAdd(x, y) == Rat(x[1] * y[2] + y[1] * x[2], x[2] * y[2])
RSub(x, y) == Rat(x[1] * y[2] - y[1] * x[2], x[2] * y[2])
RMul(x, y) == Rat(x[1] * y[1], x[2] * y[2])
RDiv(x, y) == Rat(x[1] * y[2], x[2] * y[1])
RAbs(x) == <<Abs(x[1]), x[2]>>
(* Comparisons with NaN are false; Math.max/Math.min return NaN for NaN.    *)
RLeq(x, y) == ~IsNaN(x) /\ ~IsNaN(y) /\ x[1] * y[2] <= y[1] * x[2]
RLess(x, y) == ~IsNaN(x) /\ ~IsNaN(y) /\ x[1] * y[2] < y[1] * x[2]
RMax(x, y) == IF IsNaN(x) \/ IsNaN(y) THEN NaN ELSE IF RLeq(x, y) THEN y ELSE x
RMin(x, y) == IF IsNaN(x) \/ IsNaN(y) THEN NaN ELSE IF RLeq(x, y) THEN x ELSE y

-----------------------------------------------------------------------------
(* Axis model *)

AXES == <<"economy", "governance", "civil_liberties", "society",
          "diplomacy", "environment", "justice", "technology">>

AxisSet == {AXES[i] : i \in 1..Len(AXES)}

-----------------------------------------------------------------------------
(* Bounds of the model *)

MaxAnswer == 2        \* answerValue ranges over the integers -MaxAnswer..MaxAnswer

Answers == {<<k, 1>> : k \in -MaxAnswer..MaxAnswer}

Users == {"u1", "u2", "u3"}

(* Question catalogue.  weights is Object.entries(question.weights): a      *)
(* sequence of <<key, weight>>.  q1, q2 are the economy loadings of the     *)
(* documented scenarios; q3 carries a weight above 1, an explicit zero      *)
(* weight and a key that is no axis (createQuestion stores the request body *)
(* unvalidated).                                                            *)
Question == [
    q1 |-> [questionnaireId |-> "A", active |-> TRUE,
            weights |-> << <<"economy", <<4, 5>> >> >>],
    q2 |-> [questionnaireId |-> "A", active |-> TRUE,
            weights |-> << <<"economy", <<-2, 5>> >>, <<"technology", <<3, 10>> >> >>],
    q3 |-> [questionnaireId |-> "B", active |-> TRUE,
            weights |-> << <<"governance", <<3, 2>> >>, <<"justice", <<0, 1>> >>,
                           <<"vibes", <<1, 2>> >> >>] ]

QuestionIds == DOMAIN Question
QuestionOrder == <<"q1", "q2", "q3">>
Questionnaires == {"A", "B"}

-----------------------------------------------------------------------------
(* Compass Calculator *)

ZeroScores == [axis \in AxisSet |-> [total |-> Zero, weightSum |-> Zero, count |-> 0]]

(* AccumulateWeights with weightSum += weight, the Math.abs left out.       *)
RECURSIVE AccumulateWeightsSigned(_, _, _, _)
AccumulateWeightsSigned(axisScores, weights, i, answerValue) ==
    IF i > Len(weights) THEN axisScores
    ELSE LET axis == weights[i][1]
             weight == weights[i][2]
             next == IF axis \in DOMAIN axisScores
                     THEN [axisScores EXCEPT ![axis] =
                             [total |-> RAdd(@.total, RMul(answerValue, weight)),
                              weightSum |-> RAdd(@.weightSum, weight),
                              count |-> @.count + 1]]
                     ELSE axisScores
         IN  AccumulateWeightsSigned(next, weights, i + 1, answerValue)

(* One pass of the inner loop: for (const [axis, weight] of Object.entries(weights)) *)
RECURSIVE AccumulateWeights(_, _, _, _)
AccumulateWeights(axisScores, weights, i, answerValue) ==
    IF i > Len(weights) THEN axisScores
    ELSE LET axis == weights[i][1]
             weight == weights[i][2]
             next == IF axis \in DOMAIN axisScores
                     THEN [axisScores EXCEPT ![axis] =
                             [total |-> RAdd(@.total, RMul(answerValue, weight)),
                              weightSum |-> RAdd(@.weightSum, RAbs(weight)),
                              count |-> @.count + 1]]
                     ELSE axisScores
         IN  AccumulateWeights(next, weights, i + 1, answerValue)

(* The outer loop over the rows findMany returned.  rows: sequence of       *)
(* [questionId, answerValue].                                               *)
RECURSIVE AccumulateResponses(_, _, _)
AccumulateResponses(axisScores, rows, i) ==
    IF i > Len(rows) THEN axisScores
    ELSE AccumulateResponses(
            AccumulateWeights(axisScores, Question[rows[i].questionId].weights, 1,
                              rows[i].answerValue),
            rows, i + 1)

(* prisma.userResponse.findMany({where: {userId, question: {questionnaireId}}}) *)
FindResponses(responses, userId, questionnaireId) ==
    LET keep(q) == /\ responses[userId][q] # NoAnswer
                   /\ questionnaireId # Null => Question[q].questionnaireId = questionnaireId
        picked == SelectSeq(QuestionOrder, keep)
    IN  [i \in 1..Len(picked) |->
            [questionId |-> picked[i], answerValue |-> responses[userId][picked[i]]]]

(* Clamp left out. *)
ClampMissing(v) == v

Clamp(v) == RMax(MinusOne, RMin(One, v))

(* AxisScore without the division by weightSum. *)
AxisScoreUnnormalised(s) == IF RLess(Zero, s.weightSum) THEN Clamp(s.total) ELSE Zero

AxisScore(s) == IF RLess(Zero, s.weightSum) THEN Clamp(RDiv(s.total, s.weightSum)) ELSE Zero

calculateCompass(responses, userId, questionnaireId) ==
    LET axisScores == AccumulateResponses(ZeroScores,
                          FindResponses(responses, userId, questionnaireId), 1)
    IN  [dimensions |-> [axis \in AxisSet |-> AxisScore(axisScores[axis])],
         confidence |-> [axis \in AxisSet |-> axisScores[axis].count]]

-----------------------------------------------------------------------------
(* Responses *)

MaxBatch == 1         \* longest batch one submitResponses call carries

Batches == UNION {[1..n -> [questionId : QuestionIds, answerValue : Answers]] : n \in 1..MaxBatch}

(* findMany / findUnique on (userId, questionId) *)
RowsOf(rows, userId, questionId) ==
    {r \in rows : r.userId = userId /\ r.questionId = questionId}

(* The table as the calculator reads it: for each user and question the    *)
(* stored answerValue, NoAnswer where there is no row.                      *)
Responses ==
    [u \in Users |-> [q \in QuestionIds |->
        IF RowsOf(userResponse, u, q) = {} THEN NoAnswer
        ELSE (CHOOSE r \in RowsOf(userResponse, u, q) : TRUE).answerValue]]

(* INSERT with no unique index on the table.                                *)
InsertRowNoIndex(rows, row) == rows \cup {row}

(* INSERT under UserResponse_userId_questionId_key: a second row for the    *)
(* same (userId, questionId) is refused, and the upsert that issued it      *)
(* rejects.                                                                 *)
InsertRow(rows, row) ==
    IF RowsOf(rows, row.userId, row.questionId) # {} THEN rows ELSE rows \cup {row}

UpdateRows(rows, userId, questionId, answerValue) ==
    {IF r.userId = userId /\ r.questionId = questionId
     THEN [r EXCEPT !.answerValue = answerValue] ELSE r : r \in rows}

(* The tables the concurrent upserts of one batch can leave.  An upsert     *)
(* looks its row up and then updates it or inserts one; phase[i] is         *)
(* "start" before the lookup of entry i, "found" or "missing" after it,     *)
(* "done" after its write.  The statements of different upserts             *)
(* interleave in any order; an upsert the database runs as one statement    *)
(* is the interleaving that keeps its two steps together.                   *)
RECURSIVE UpsertOutcomes(_, _, _, _)
UpsertOutcomes(rows, userId, responses, phase) ==
    LET open == {i \in 1..Len(responses) : phase[i] # "done"}
        step(i) ==
            LET r == responses[i]
            IN  IF phase[i] = "start"
                THEN UpsertOutcomes(rows, userId, responses,
                        [phase EXCEPT ![i] = IF RowsOf(rows, userId, r.questionId) # {}
                                             THEN "found" ELSE "missing"])
                ELSE UpsertOutcomes(
                        IF phase[i] = "found"
                        THEN UpdateRows(rows, userId, r.questionId, r.answerValue)
                        ELSE InsertRow(rows, [userId |-> userId, questionId |-> r.questionId,
                                              answerValue |-> r.answerValue]),
                        userId, responses, [phase EXCEPT ![i] = "done"])
    IN  IF open = {} THEN {rows} ELSE UNION {step(i) : i \in open}

(* Promise.all over one upsert per batch entry.                             *)
SubmitResponses(userId, responses) ==
    /\ userResponse' \in UpsertOutcomes(userResponse, userId, responses,
                                        [i \in 1..Len(responses) |-> "start"])
    /\ out' = NoCall
    /\ UNCHANGED <<compassEntry, sharingMode, matchThreshold, connectionRequest, chatVars>>

ResetForQuestionnaire(userId, questionnaireId) ==
    LET questionIds == {q \in QuestionIds :
                          Question[q].questionnaireId = questionnaireId /\ Question[q].active}
    IN  /\ userResponse' =
              IF questionIds = {} THEN userResponse
              ELSE {r \in userResponse : ~(r.userId = userId /\ r.questionId \in questionIds)}
        /\ out' = NoCall
        /\ UNCHANGED <<compassEntry, sharingMode, matchThreshold, connectionRequest, chatVars>>

CalculateCompass(userId, questionnaireId) ==
    /\ out' = [op |-> "calculateCompass", userId |-> userId,
               questionnaireId |-> questionnaireId,
               result |-> calculateCompass(Responses, userId, questionnaireId)]
    /\ UNCHANGED dbVars

-----------------------------------------------------------------------------
(* Specification of the Compass Calculator: one user answering, resetting   *)
(* and reading the compass.                                                 *)

NoResponses == {}

InitCompass ==
    /\ userResponse = NoResponses
    /\ compassEntry = <<>>
    /\ sharingMode = [u \in Users |-> "GHOST"]
    /\ matchThreshold = [u \in Users |-> NullNum]
    /\ connectionRequest = {}
    /\ poke = {}
    /\ encryptedMessage = <<>>
    /\ chatPublicKey = [u \in Users |-> Null]
    /\ out = NoCall

NextCompass ==
    \/ \E r \in Batches : SubmitResponses("u1", r)
    \/ \E qn \in Questionnaires : ResetForQuestionnaire("u1", qn)
    \/ \E qn \in Questionnaires \cup {Null} : CalculateCompass("u1", qn)

SpecCompass == InitCompass /\ [][NextCompass]_vars

-----------------------------------------------------------------------------
(* Natural numbers beyond the range of the model checker's integers:       *)
(* little-endian sequences of base-10000 digits, <<>> for 0.  They carry    *)
(* the exact products the comparisons of square roots need.                 *)

Base == 10000

RECURSIVE BigFromInt(_)
BigFromInt(n) == IF n = 0 THEN <<>> ELSE <<n % Base>> \o BigFromInt(n \div Base)

RECURSIVE BigTrim(_)
BigTrim(a) ==
    IF a = <<>> THEN <<>>
    ELSE IF a[Len(a)] = 0 THEN BigTrim(SubSeq(a, 1, Len(a) - 1)) ELSE a

BigDigit(a, i) == IF i <= Len(a) THEN a[i] ELSE 0

RECURSIVE BigAddFrom(_, _, _, _)
BigAddFrom(a, b, i, carry) ==
    IF i > Len(a) /\ i > Len(b)
    THEN (IF carry = 0 THEN <<>> ELSE <<carry>>)
    ELSE LET t == BigDigit(a, i) + BigDigit(b, i) + carry
         IN  <<t % Base>> \o BigAddFrom(a, b, i + 1, t \div Base)

BigAdd(a, b) == BigAddFrom(a, b, 1, 0)

(* a - b for a >= b *)
RECURSIVE BigSubFrom(_, _, _, _)
BigSubFrom(a, b, i, borrow) ==
    IF i > Len(a) THEN <<>>
    ELSE LET t == BigDigit(a, i) - BigDigit(b, i) - borrow
         IN  IF t < 0 THEN <<t + Base>> \o BigSubFrom(a, b, i + 1, 1)
             ELSE <<t>> \o BigSubFrom(a, b, i + 1, 0)

BigSub(a, b) == BigTrim(BigSubFrom(a, b, 1, 0))

RECURSIVE BigMulDigit(_, _, _, _)
BigMulDigit(a, x, i, carry) ==
    IF i > Len(a) THEN (IF carry = 0 THEN <<>> ELSE <<carry>>)
    ELSE LET t == a[i] * x + carry
         IN  <<t % Base>> \o BigMulDigit(a, x, i + 1, t \div Base)

RECURSIVE BigMulFrom(_, _, _)
BigMulFrom(a, b, j) ==
    IF j > Len(b) THEN <<>>
    ELSE BigAdd(BigMulDigit(a, b[j], 1, 0), <<0>> \o BigMulFrom(a, b, j + 1))

BigMul(a, b) == BigTrim(BigMulFrom(a, b, 1))

RECURSIVE BigLeqFrom(_, _, _)
BigLeqFrom(a, b, i) ==
    IF i = 0 THEN TRUE
    ELSE IF a[i] # b[i] THEN a[i] < b[i]
    ELSE BigLeqFrom(a, b, i - 1)

BigLeq(a, b) ==
    IF Len(a) # Len(b) THEN Len(a) < Len(b) ELSE BigLeqFrom(a, b, Len(a))

(* sqrt(A) - sqrt(B) >= rn / rd, for naturals A, B and rd > 0, decided by   *)
(* squaring twice.                                                          *)
SqrtDiffGeq(A, B, rn, rd) ==
    LET bA == BigMul(BigFromInt(A), BigMul(BigFromInt(rd), BigFromInt(rd)))
        bB == BigMul(BigFromInt(B), BigMul(BigFromInt(rd), BigFromInt(rd)))
        r2 == BigMul(BigFromInt(Abs(rn)), BigFromInt(Abs(rn)))
        four == BigFromInt(4)
    IN  IF rn > 0
        THEN \* sqrt(bA) >= |rn| + sqrt(bB)
             /\ BigLeq(BigAdd(bB, r2), bA)
             /\ LET S == BigSub(bA, BigAdd(bB, r2))
                IN  BigLeq(BigMul(four, BigMul(r2, bB)), BigMul(S, S))
        ELSE \* sqrt(bB) <= |rn| + sqrt(bA)
             \/ BigLeq(bB, BigAdd(bA, r2))
             \/ LET S == BigSub(bB, BigAdd(bA, r2))
                IN  BigLeq(BigMul(S, S), BigMul(four, BigMul(r2, bA)))

-----------------------------------------------------------------------------
(* Match Scorer.                                                            *)
(*                                                                          *)
(* A score is the record [C, A, B, M] standing for (C + sqrt(A) - sqrt(B))  *)
(* / M with M > 0.  For two vectors whose components are n_i / d (d their   *)
(* common denominator) and N = sum (n_i - m_i)^2:                           *)
(*   1 - sqrt(N / d^2) / sqrt(8 * 4)        = (8d - sqrt(2N)) / 8d          *)
(*   0.6 * (1 - sqrt(Nc / d^2) / sqrt(2 * 4)) + 0.4 * sqrt(No / d^2) / sqrt(6 * 4) *)
(*                                          = (36d + sqrt(24 No) - sqrt(162 Nc)) / 60d *)

MatchModes == {"mirror", "challenger", "complement"}

Lcm(a, b) == (a * b) \div Gcd(a, b)

(* a[axis] ?? 0 *)
Dim(a, axis) == IF axis \in DOMAIN a THEN a[axis] ELSE Zero

RECURSIVE CommonDenFrom(_, _, _)
CommonDenFrom(a, b, i) ==
    IF i > Len(AXES) THEN 1
    ELSE Lcm(Lcm(Dim(a, AXES[i])[2], Dim(b, AXES[i])[2]), CommonDenFrom(a, b, i + 1))

CommonDen(a, b) == CommonDenFrom(a, b, 1)

(* The numerator of a component over the common denominator d. *)
Num(x, d) == x[1] * (d \div x[2])

(* The loop  for (const axis of axes) { diff = sa * a[axis] - b[axis]; sumSq += diff * diff }  *)
(* in units of 1 / d^2; sa is 1, or -1 for the inverted target of challenger. *)
RECURSIVE SumSqFrom(_, _, _, _, _, _)
SumSqFrom(a, b, axes, i, sa, d) ==
    IF i > Len(axes) THEN 0
    ELSE LET diff == sa * Num(Dim(a, axes[i]), d) - Num(Dim(b, axes[i]), d)
         IN  diff * diff + SumSqFrom(a, b, axes, i + 1, sa, d)

ScoreZero == [C |-> 0, A |-> 0, B |-> 0, M |-> 1]

(* Math.max(0, 1 - distance / maxDistance) with maxDistance = sqrt(AXES.length * 4) *)
Closeness(N, d) ==
    IF 2 * N >= 64 * d * d THEN ScoreZero
    ELSE [C |-> 8 * d, A |-> 0, B |-> 2 * N, M |-> 8 * d]

(* mirrorScore that returns distance / maxDistance. *)
mirrorScoreDistance(a, b) ==
    LET d == CommonDen(a, b)
    IN  [C |-> 0, A |-> 2 * SumSqFrom(a, b, AXES, 1, 1, d), B |-> 0, M |-> 8 * d]

(* mirrorScore whose loop runs over governance and justice only. *)
mirrorScoreCoreOnly(a, b) ==
    LET d == CommonDen(a, b)
    IN  Closeness(SumSqFrom(a, b, <<"governance", "justice">>, 1, 1, d), d)

mirrorScore(a, b) ==
    LET d == CommonDen(a, b) IN Closeness(SumSqFrom(a, b, AXES, 1, 1, d), d)

(* challengerScore with target = a[axis], not inverted. *)
challengerScoreNoInverse(a, b) ==
    LET d == CommonDen(a, b) IN Closeness(SumSqFrom(a, b, AXES, 1, 1, d), d)

challengerScore(a, b) ==
    LET d == CommonDen(a, b) IN Closeness(SumSqFrom(a, b, AXES, 1, -1, d), d)

coreAxes == <<"governance", "justice">>
operationalAxes == <<"economy", "civil_liberties", "society", "diplomacy",
                     "environment", "technology">>

(* complementScore with maxOpDistance = sqrt(operationalAxes.length), the   *)
(* factor 4 left out: diversity = sqrt(No / d^2) / sqrt(6), so              *)
(* 60d * score = 36d + sqrt(96 No) - sqrt(162 Nc).                          *)
complementScoreShortRange(a, b) ==
    LET d == CommonDen(a, b)
        Nc == SumSqFrom(a, b, coreAxes, 1, 1, d)
        No == SumSqFrom(a, b, operationalAxes, 1, 1, d)
    IN  [C |-> 36 * d, A |-> 96 * No, B |-> 162 * Nc, M |-> 60 * d]

(* complementScore with the weights exchanged: 0.4 * coreAlignment + 0.6 *  *)
(* operationalDiversity, so 60d * score = 24d + sqrt(54 No) - sqrt(72 Nc).  *)
complementScoreSwapped(a, b) ==
    LET d == CommonDen(a, b)
        Nc == SumSqFrom(a, b, coreAxes, 1, 1, d)
        No == SumSqFrom(a, b, operationalAxes, 1, 1, d)
    IN  [C |-> 24 * d, A |-> 54 * No, B |-> 72 * Nc, M |-> 60 * d]

complementScore(a, b) ==
    LET d == CommonDen(a, b)
        Nc == SumSqFrom(a, b, coreAxes, 1, 1, d)
        No == SumSqFrom(a, b, operationalAxes, 1, 1, d)
    IN  [C |-> 36 * d, A |-> 24 * No, B |-> 162 * Nc, M |-> 60 * d]

calculateScore(userDims, candidateDims, mode) ==
    CASE mode = "mirror" -> mirrorScore(userDims, candidateDims)
      [] mode = "challenger" -> challengerScore(userDims, candidateDims)
      [] mode = "complement" -> complementScore(userDims, candidateDims)

(* score >= t for a number t; false for NaN, as >= is in JavaScript.        *)
(* (C + sqrt A - sqrt B) / M >= tn / td  <=>  sqrt A - sqrt B >= (M tn - C td) / td *)
ScoreGeq(s, t) ==
    /\ ~IsNaN(t)
    /\ IF t[2] = 0 THEN t[1] < 0
       ELSE SqrtDiffGeq(s.A, s.B, s.M * t[1] - s.C * t[2], t[2])

ScoreLeq(s, t) ==
    /\ ~IsNaN(t)
    /\ IF t[2] = 0 THEN t[1] > 0
       ELSE SqrtDiffGeq(s.B, s.A, s.C * t[2] - s.M * t[1], t[2])

(* parseFloat(score.toFixed(3)): the multiple of 1/1000 nearest to the      *)
(* score, the larger one on a tie.  It is k / 1000 for the largest k with   *)
(* score >= (2k - 1) / 2000, found by bisection between lo (which has it)   *)
(* and hi (which has not).                                                  *)
RECURSIVE RoundSearch(_, _, _)
RoundSearch(s, lo, hi) ==
    IF hi - lo <= 1 THEN lo
    ELSE LET mid == (lo + hi) \div 2
         IN  IF ScoreGeq(s, <<2 * mid - 1, 2000>>) THEN RoundSearch(s, mid, hi)
             ELSE RoundSearch(s, lo, mid)

ToFixed3(s) == Rat(RoundSearch(s, -4096, 4096), 1000)

-----------------------------------------------------------------------------
(* Strings: query parameters and wallet addresses *)

Digits == <<"0", "1", "2", "3", "4", "5", "6", "7", "8", "9">>
IsDigit(c) == \E i \in 1..10 : Digits[i] = c
DigitVal(c) == (CHOOSE i \in 1..10 : Digits[i] = c) - 1

(* The index after the longest run of digits of s that starts at i. *)
RECURSIVE DigitsEnd(_, _)
DigitsEnd(s, i) == IF i <= Len(s) /\ IsDigit(s[i]) THEN DigitsEnd(s, i + 1) ELSE i

RECURSIVE DigitsValue(_, _, _)
DigitsValue(s, i, j) ==
    IF j < i THEN 0 ELSE 10 * DigitsValue(s, i, j - 1) + DigitVal(s[j])

RECURSIVE Pow10(_)
Pow10(n) == IF n = 0 THEN 1 ELSE 10 * Pow10(n - 1)

SignLen(s) == IF Len(s) > 0 /\ s[1] \in {"-", "+"} THEN 1 ELSE 0
SignOf(s) == IF Len(s) > 0 /\ s[1] = "-" THEN -1 ELSE 1

(* parseInt(s) for decimal input: an optional sign, then digits up to the   *)
(* first character that is none; NaN when there is no digit.                *)
ParseInt(s) ==
    LET i == SignLen(s) + 1
        j == DigitsEnd(s, i)
    IN  IF j = i THEN [nan |-> TRUE, n |-> 0]
        ELSE [nan |-> FALSE, n |-> SignOf(s) * DigitsValue(s, i, j - 1)]

(* parseFloat(s) for plain decimal input: sign, digits, an optional point   *)
(* and more digits; NaN when neither part has a digit.                      *)
ParseFloat(s) ==
    LET i == SignLen(s) + 1
        j == DigitsEnd(s, i)
        hasPoint == j <= Len(s) /\ s[j] = "."
        k == IF hasPoint THEN DigitsEnd(s, j + 1) ELSE j
        fracLen == IF hasPoint THEN k - (j + 1) ELSE 0
    IN  IF j = i /\ fracLen = 0 THEN NaN
        ELSE Rat(SignOf(s) * (DigitsValue(s, i, j - 1) * Pow10(fracLen)
                              + (IF fracLen > 0 THEN DigitsValue(s, j + 1, k - 1) ELSE 0)),
                 Pow10(fracLen))

(* A query parameter that is absent (or empty, which the handlers treat     *)
(* alike).                                                                  *)
Absent == <<>>

(* User.walletAddress: a SIWE address, a guest placeholder                  *)
(* ("guest-" + 16 hex digits) and an address the legacy /auth/wallet        *)
(* endpoint stored as sent.                                                 *)
WalletAddress == [
    u1 |-> <<"0", "x", "5", "2", "9", "0", "8", "4", "0", "0", "0", "9", "8", "5", "2", "7", "8", "8", "6", "e", "0", "f", "7", "0", "3", "0", "0", "6", "9", "8", "5", "7", "d", "2", "e", "4", "1", "6", "9", "e", "e", "7">>,
    u2 |-> <<"g", "u", "e", "s", "t", "-", "9", "f", "8", "6", "d", "0", "8", "1", "8", "8", "4", "c", "7", "d", "6", "5">>,
    u3 |-> <<"0", "x", "a", "b", "c">> ]

(* address.slice(from) for from < 0 and address.slice(0, to) for to >= 0    *)
SliceHead(address, to) == SubSeq(address, 1, IF to < Len(address) THEN to ELSE Len(address))
SliceTail(address, n) ==
    SubSeq(address, (IF Len(address) - n < 0 THEN 0 ELSE Len(address) - n) + 1, Len(address))

maskAddress(address) ==
    IF Len(address) <= 10 THEN address
    ELSE SliceHead(address, 6) \o <<".", ".", ".">> \o SliceTail(address, 4)

-----------------------------------------------------------------------------
(* Snapshots *)

MaxSnapshots == 2     \* snapshots saved while snapshots are compared

AXIS_LABELS == [economy |-> "Economy", governance |-> "Governance",
                civil_liberties |-> "Civil Liberties", society |-> "Society",
                diplomacy |-> "Diplomacy", environment |-> "Environment",
                justice |-> "Justice", technology |-> "Technology"]

(* x.toFixed(2) for x >= 0, in hundredths: the nearest, the larger on a tie *)
ToFixed2(x) == Rat((200 * x[1] + x[2]) \div (2 * x[2]), 100)

(* A changelog is a text; the model keeps the fixed sentences as text and   *)
(* the comma-joined list as the sequence of its entries.                    *)
RECURSIVE ChangesFrom(_, _, _)
ChangesFrom(oldDims, newDims, i) ==
    IF i > Len(AXES) THEN <<>>
    ELSE LET axis == AXES[i]
             delta == RSub(Dim(newDims, axis), Dim(oldDims, axis))
         IN  IF RLess(RAbs(delta), <<1, 100>>) THEN ChangesFrom(oldDims, newDims, i + 1)
             ELSE << [label |-> AXIS_LABELS[axis],
                      direction |-> IF RLess(Zero, delta) THEN "up" ELSE "down",
                      amount |-> ToFixed2(RAbs(delta))] >>
                  \o ChangesFrom(oldDims, newDims, i + 1)

generateChangeLog(oldDims, newDims) ==
    LET changes == ChangesFrom(oldDims, newDims, 1)
    IN  IF Len(changes) > 0 THEN [text |-> "", changes |-> changes]
        ELSE [text |-> "No significant changes", changes |-> <<>>]

(* findFirst({where, orderBy: {createdAt: 'desc'}}): of the indices of the  *)
(* rows that satisfy where, the newest; 0 when there is none.  Rows are     *)
(* kept in creation order.                                                  *)
FindLatest(rows) ==
    IF rows = {} THEN 0 ELSE CHOOSE i \in rows : \A j \in rows : j <= i

(* saveSnapshot writing over the previous snapshot of the same scope       *)
(* instead of adding a row.                                                 *)
SaveSnapshotInPlace(userId, questionnaireId) ==
    /\ LET compass == calculateCompass(Responses, userId, questionnaireId)
           previous == FindLatest({i \in 1..Len(compassEntry) :
                                      /\ compassEntry[i].userId = userId
                                      /\ compassEntry[i].questionnaireId = questionnaireId})
       IN  compassEntry' =
              IF previous # 0
              THEN [compassEntry EXCEPT ![previous] =
                      [@ EXCEPT !.dimensions = compass.dimensions,
                                !.confidence = compass.confidence,
                                !.changeLog = generateChangeLog(compassEntry[previous].dimensions,
                                                                compass.dimensions)]]
              ELSE Append(compassEntry,
                      [id |-> Len(compassEntry) + 1, userId |-> userId,
                       questionnaireId |-> questionnaireId,
                       dimensions |-> compass.dimensions,
                       confidence |-> compass.confidence,
                       changeLog |-> [text |-> "Initial compass snapshot", changes |-> <<>>]])
    /\ out' = NoCall
    /\ UNCHANGED <<userResponse, sharingMode, matchThreshold, connectionRequest, chatVars>>

(* saveSnapshot looking for the previous snapshot of the user in any       *)
(* questionnaire scope.                                                     *)
SaveSnapshotAnyScope(userId, questionnaireId) ==
    /\ LET compass == calculateCompass(Responses, userId, questionnaireId)
           previous == FindLatest({i \in 1..Len(compassEntry) :
                                      compassEntry[i].userId = userId})
           changeLog == IF previous # 0
                        THEN generateChangeLog(compassEntry[previous].dimensions,
                                               compass.dimensions)
                        ELSE [text |-> "Initial compass snapshot", changes |-> <<>>]
       IN  compassEntry' = Append(compassEntry,
                [id |-> Len(compassEntry) + 1, userId |-> userId,
                 questionnaireId |-> questionnaireId,
                 dimensions |-> compass.dimensions, confidence |-> compass.confidence,
                 changeLog |-> changeLog])
    /\ out' = NoCall
    /\ UNCHANGED <<userResponse, sharingMode, matchThreshold, connectionRequest, chatVars>>

SaveSnapshot(userId, questionnaireId) ==
    /\ LET compass == calculateCompass(Responses, userId, questionnaireId)
           previous == FindLatest({i \in 1..Len(compassEntry) :
                                      /\ compassEntry[i].userId = userId
                                      /\ compassEntry[i].questionnaireId = questionnaireId})
           changeLog == IF previous # 0
                        THEN generateChangeLog(compassEntry[previous].dimensions,
                                               compass.dimensions)
                        ELSE [text |-> "Initial compass snapshot", changes |-> <<>>]
       IN  compassEntry' = Append(compassEntry,
                [id |-> Len(compassEntry) + 1, userId |-> userId,
                 questionnaireId |-> questionnaireId,
                 dimensions |-> compass.dimensions, confidence |-> compass.confidence,
                 changeLog |-> changeLog])
    /\ out' = NoCall
    /\ UNCHANGED <<userResponse, sharingMode, matchThreshold, connectionRequest, chatVars>>

(* findUnique({where: {id}}): the index of the row with that id, 0 when    *)
(* there is none.                                                           *)
FindUnique(id) == FindLatest({i \in 1..Len(compassEntry) : compassEntry[i].id = id})

(* x.toFixed(3) for x >= 0, in thousandths: the nearest, the larger on a tie *)
ShiftFixed3(x) == Rat((2000 * x[1] + x[2]) \div (2 * x[2]), 1000)

(* Deltas with delta = to, the subtraction of from left out.                *)
DeltasOfTarget(dims1, dims2) ==
    [axis \in AxisSet |->
        [from |-> Dim(dims1, axis), to |-> Dim(dims2, axis),
         delta |-> Dim(dims2, axis)]]

Deltas(dims1, dims2) ==
    [axis \in AxisSet |->
        [from |-> Dim(dims1, axis), to |-> Dim(dims2, axis),
         delta |-> RSub(Dim(dims2, axis), Dim(dims1, axis))]]

RECURSIVE TotalShift(_, _)
TotalShift(deltas, i) ==
    IF i = 0 THEN Zero ELSE RAdd(TotalShift(deltas, i - 1), RAbs(deltas[AXES[i]].delta))

(* BiggestShift with >= in the place of >: of the axes that tie, the last.  *)
RECURSIVE BiggestShiftLastWins(_, _)
BiggestShiftLastWins(deltas, i) ==
    IF i = 0 THEN AXES[1]
    ELSE LET max == BiggestShiftLastWins(deltas, i - 1)
         IN  IF ~RLess(RAbs(deltas[AXES[i]].delta), RAbs(deltas[max].delta))
             THEN AXES[i] ELSE max

(* AXES.reduce((max, axis) => |delta[axis]| > |delta[max]| ? axis : max,    *)
(* AXES[0]) over the first i axes.                                          *)
RECURSIVE BiggestShift(_, _)
BiggestShift(deltas, i) ==
    IF i = 0 THEN AXES[1]
    ELSE LET max == BiggestShift(deltas, i - 1)
         IN  IF RLess(RAbs(deltas[max].delta), RAbs(deltas[AXES[i]].delta))
             THEN AXES[i] ELSE max

DiffOf(snap1, snap2) ==
    LET dims1 == snap1.dimensions
        dims2 == snap2.dimensions
        deltas == Deltas(dims1, dims2)
        biggestShift == BiggestShift(deltas, Len(AXES))
    IN  [from |-> [id |-> snap1.id, dimensions |-> dims1],
         to |-> [id |-> snap2.id, dimensions |-> dims2],
         deltas |-> deltas,
         summary |-> [totalShift |-> ShiftFixed3(TotalShift(deltas, Len(AXES))),
                      biggestShift |-> [axis |-> biggestShift,
                                        label |-> AXIS_LABELS[biggestShift],
                                        delta |-> deltas[biggestShift].delta],
                      changeLog |-> generateChangeLog(dims1, dims2)]]

NoDiff == <<>>        \* diffSnapshots returning null

(* diffSnapshots with an all-zero vector in the place of a snapshot that   *)
(* is not stored.                                                           *)
diffSnapshotsDefaultVector(id1, id2) ==
    LET snap(id) == IF FindUnique(id) = 0
                    THEN [id |-> id, dimensions |-> [axis \in AxisSet |-> Zero]]
                    ELSE compassEntry[FindUnique(id)]
    IN  DiffOf(snap(id1), snap(id2))

diffSnapshots(id1, id2) ==
    IF FindUnique(id1) = 0 \/ FindUnique(id2) = 0 THEN NoDiff
    ELSE DiffOf(compassEntry[FindUnique(id1)], compassEntry[FindUnique(id2)])

(* GET compass/diff?id1=&id2= *)
DiffSnapshots(id1, id2) ==
    /\ LET diff == diffSnapshots(id1, id2)
       IN  out' = IF diff = NoDiff
                  THEN [op |-> "diffSnapshots", id1 |-> id1, id2 |-> id2,
                        outcome |-> "NotFoundException",
                        message |-> "One or both snapshots not found"]
                  ELSE [op |-> "diffSnapshots", id1 |-> id1, id2 |-> id2,
                        outcome |-> "returned", result |-> diff]
    /\ UNCHANGED dbVars

-----------------------------------------------------------------------------
(* Privacy and matching preferences *)

SharingModes == {"GHOST", "PUBLIC", "SELECTIVE"}

SetSharingMode(userId, mode) ==
    /\ sharingMode' = [sharingMode EXCEPT ![userId] = mode]
    /\ out' = NoCall
    /\ UNCHANGED <<userResponse, compassEntry, matchThreshold, connectionRequest, chatVars>>

SetMatchThreshold(userId, threshold) ==
    /\ matchThreshold' = [matchThreshold EXCEPT ![userId] = RMax(Zero, RMin(One, threshold))]
    /\ out' = NoCall
    /\ UNCHANGED <<userResponse, compassEntry, sharingMode, connectionRequest, chatVars>>

-----------------------------------------------------------------------------
(* Connection requests.  A row is [id, senderId, receiverId, status]; the   *)
(* matchMode, matchScore, message and timestamps of a row decide nothing    *)
(* here and are left out.                                                   *)

MaxConnections == 1   \* rows the ConnectionRequest table holds at most

Thrown(message) == [op |-> "throw", message |-> message]

Between(a, b) ==
    {c \in connectionRequest :
        \/ c.senderId = a /\ c.receiverId = b
        \/ c.senderId = b /\ c.receiverId = a}

RowsWithId(rows, id) == {c \in rows : c.id = id}

UpdateConnection(c, row) == (connectionRequest \ {c}) \cup {row}

(* respondToConnection without the check of the receiver.                  *)
RespondToConnectionAnyUser(connectionId, userId, action) ==
    /\ UNCHANGED <<userResponse, compassEntry, sharingMode, matchThreshold, chatVars>>
    /\ LET found == {c \in connectionRequest : c.id = connectionId}
       IN  IF found = {}
           THEN out' = Thrown("Connection request not found") /\ UNCHANGED connectionRequest
           ELSE LET connection == CHOOSE c \in found : TRUE
                IN  IF connection.status # "PENDING"
                    THEN /\ out' = Thrown("Cannot respond to a " \o connection.status \o " request")
                         /\ UNCHANGED connectionRequest
                    ELSE /\ connectionRequest' =
                               UpdateConnection(connection, [connection EXCEPT !.status = action])
                         /\ out' = NoCall

(* findUnique by id, the two checks and the update of respondToConnection  *)
(* on the table rows: the table it leaves and the message of the error it   *)
(* throws, Null when it throws none.                                        *)
respondToConnection(rows, connectionId, userId, action) ==
    LET found == RowsWithId(rows, connectionId)
        connection == CHOOSE c \in found : TRUE
    IN  IF found = {}
        THEN [rows |-> rows, error |-> "Connection request not found"]
        ELSE IF connection.receiverId # userId
        THEN [rows |-> rows,
              error |-> "Only the receiver can respond to a connection request"]
        ELSE IF connection.status # "PENDING"
        THEN [rows |-> rows,
              error |-> "Cannot respond to a " \o connection.status \o " request"]
        ELSE [rows |-> (rows \ {connection}) \cup {[connection EXCEPT !.status = action]},
              error |-> Null]

RespondToConnection(connectionId, userId, action) ==
    /\ UNCHANGED <<userResponse, compassEntry, sharingMode, matchThreshold, chatVars>>
    /\ LET done == respondToConnection(connectionRequest, connectionId, userId, action)
       IN  IF done.error # Null
           THEN out' = Thrown(done.error) /\ UNCHANGED connectionRequest
           ELSE connectionRequest' = done.rows /\ out' = NoCall

NoConnection == [id |-> 0, senderId |-> Null, receiverId |-> Null, status |-> Null]

(* findFirst({where: {OR: [{senderId, receiverId}, {senderId: receiverId,   *)
(* receiverId: senderId}]}}): any of the rows between the two users,        *)
(* NoConnection when there is none.                                         *)
FindExisting(rows, senderId, receiverId) ==
    LET between == {c \in rows : \/ c.senderId = senderId /\ c.receiverId = receiverId
                                 \/ c.senderId = receiverId /\ c.receiverId = senderId}
    IN  IF between = {} THEN {NoConnection} ELSE between

(* ConnectionRequest_senderId_receiverId_key: another row than the one with *)
(* id exceptId has this sender and receiver.                                *)
PairTaken(rows, senderId, receiverId, exceptId) ==
    \E c \in rows : c.id # exceptId /\ c.senderId = senderId /\ c.receiverId = receiverId

UniqueFailed == "Unique constraint failed on the fields: (senderId,receiverId)"

(* What sendConnectionRequest does after its findFirst returned existing,   *)
(* on the table rows as it is by then.                                      *)
SendWrite(rows, senderId, receiverId, existing) ==
    IF existing.id = 0
    THEN IF PairTaken(rows, senderId, receiverId, 0)
         THEN [rows |-> rows, error |-> UniqueFailed]
         ELSE [rows |-> rows \cup {[id |-> Cardinality(rows) + 1, senderId |-> senderId,
                                    receiverId |-> receiverId, status |-> "PENDING"]},
               error |-> Null]
    ELSE IF existing.status = "ACCEPTED"
    THEN [rows |-> rows, error |-> "Already connected"]
    ELSE IF existing.status = "PENDING"
    THEN IF existing.senderId = receiverId
         THEN respondToConnection(rows, existing.id, senderId, "ACCEPTED")
         ELSE [rows |-> rows, error |-> "Connection request already pending"]
    ELSE IF existing.status \in {"DECLINED", "CANCELLED"}
    THEN IF PairTaken(rows, senderId, receiverId, existing.id)
         THEN [rows |-> rows, error |-> UniqueFailed]
         ELSE [rows |-> {IF c.id = existing.id
                         THEN [c EXCEPT !.senderId = senderId, !.receiverId = receiverId,
                                        !.status = "PENDING"]
                         ELSE c : c \in rows},
               error |-> Null]
    ELSE IF PairTaken(rows, senderId, receiverId, 0)
    THEN [rows |-> rows, error |-> UniqueFailed]
    ELSE [rows |-> rows \cup {[id |-> Cardinality(rows) + 1, senderId |-> senderId,
                               receiverId |-> receiverId, status |-> "PENDING"]},
          error |-> Null]

SendConnectionRequest(senderId, receiverId) ==
    /\ UNCHANGED <<userResponse, compassEntry, sharingMode, matchThreshold, chatVars>>
    /\ IF senderId = receiverId
       THEN out' = Thrown("Cannot connect to yourself") /\ UNCHANGED connectionRequest
       ELSE \E existing \in FindExisting(connectionRequest, senderId, receiverId) :
              /\ existing.id = 0 => Cardinality(connectionRequest) < MaxConnections
              /\ LET done == SendWrite(connectionRequest, senderId, receiverId, existing)
                 IN  IF done.error # Null
                     THEN out' = Thrown(done.error) /\ UNCHANGED connectionRequest
                     ELSE connectionRequest' = done.rows /\ out' = NoCall

(* Two sendConnectionRequest calls served together, one of senderId to     *)
(* receiverId and one back: each is an async function that awaits its       *)
(* findFirst before it writes, so both lookups can run on the table as it   *)
(* is before either call writes; the writes then follow one after the       *)
(* other. out keeps the result of the call that finishes last.              *)
ConcurrentSendConnectionRequests(senderId, receiverId) ==
    /\ senderId # receiverId
    /\ UNCHANGED <<userResponse, compassEntry, sharingMode, matchThreshold, chatVars>>
    /\ \E existing \in FindExisting(connectionRequest, senderId, receiverId),
          existingBack \in FindExisting(connectionRequest, receiverId, senderId) :
          LET first == SendWrite(connectionRequest, senderId, receiverId, existing)
              last == SendWrite(first.rows, receiverId, senderId, existingBack)
          IN  /\ connectionRequest' = last.rows
              /\ out' = IF last.error # Null THEN Thrown(last.error) ELSE NoCall

(* cancelConnection without the check of the status.                       *)
CancelConnectionAnyStatus(connectionId, userId) ==
    /\ UNCHANGED <<userResponse, compassEntry, sharingMode, matchThreshold, chatVars>>
    /\ LET found == {c \in connectionRequest : c.id = connectionId}
       IN  IF found = {}
           THEN out' = Thrown("Connection request not found") /\ UNCHANGED connectionRequest
           ELSE LET connection == CHOOSE c \in found : TRUE
                IN  IF connection.senderId # userId
                    THEN /\ out' = Thrown("Only the sender can cancel a connection request")
                         /\ UNCHANGED connectionRequest
                    ELSE /\ connectionRequest' =
                               UpdateConnection(connection, [connection EXCEPT !.status = "CANCELLED"])
                         /\ out' = NoCall

CancelConnection(connectionId, userId) ==
    /\ UNCHANGED <<userResponse, compassEntry, sharingMode, matchThreshold, chatVars>>
    /\ LET found == {c \in connectionRequest : c.id = connectionId}
       IN  IF found = {}
           THEN out' = Thrown("Connection request not found") /\ UNCHANGED connectionRequest
           ELSE LET connection == CHOOSE c \in found : TRUE
                IN  IF connection.senderId # userId
                    THEN /\ out' = Thrown("Only the sender can cancel a connection request")
                         /\ UNCHANGED connectionRequest
                    ELSE IF connection.status # "PENDING"
                    THEN /\ out' = Thrown("Cannot cancel a " \o connection.status \o " request")
                         /\ UNCHANGED connectionRequest
                    ELSE /\ connectionRequest' =
                               UpdateConnection(connection, [connection EXCEPT !.status = "CANCELLED"])
                         /\ out' = NoCall

-----------------------------------------------------------------------------
(* Matchmaking Orchestrator *)

NoCompass == <<>>     \* getLatestCompass returning null

ZeroTotals == [axis \in AxisSet |-> [total |-> Zero, weightSum |-> Zero]]

(* LiveWeights with weightSum += weight, the Math.abs left out.             *)
RECURSIVE LiveWeightsSigned(_, _, _, _)
LiveWeightsSigned(axisScores, weights, i, answerValue) ==
    IF i > Len(weights) THEN axisScores
    ELSE LET axis == weights[i][1]
             weight == weights[i][2]
             next == IF axis \in DOMAIN axisScores
                     THEN [axisScores EXCEPT ![axis] =
                             [total |-> RAdd(@.total, RMul(answerValue, weight)),
                              weightSum |-> RAdd(@.weightSum, weight)]]
                     ELSE axisScores
         IN  LiveWeightsSigned(next, weights, i + 1, answerValue)

(* The live fallback of getLatestCompass: its own copy of the two loops.    *)
RECURSIVE LiveWeights(_, _, _, _)
LiveWeights(axisScores, weights, i, answerValue) ==
    IF i > Len(weights) THEN axisScores
    ELSE LET axis == weights[i][1]
             weight == weights[i][2]
             next == IF axis \in DOMAIN axisScores
                     THEN [axisScores EXCEPT ![axis] =
                             [total |-> RAdd(@.total, RMul(answerValue, weight)),
                              weightSum |-> RAdd(@.weightSum, RAbs(weight))]]
                     ELSE axisScores
         IN  LiveWeights(next, weights, i + 1, answerValue)

RECURSIVE LiveResponses(_, _, _)
LiveResponses(axisScores, rows, i) ==
    IF i > Len(rows) THEN axisScores
    ELSE LiveResponses(
            LiveWeights(axisScores, Question[rows[i].questionId].weights, 1,
                        rows[i].answerValue),
            rows, i + 1)

(* getLatestCompass with an all-zero vector in place of null. *)
getLatestCompassZeroDefault(userId) ==
    LET latest == FindLatest({i \in 1..Len(compassEntry) : compassEntry[i].userId = userId})
        responses == FindResponses(Responses, userId, Null)
        axisScores == LiveResponses(ZeroTotals, responses, 1)
    IN  IF latest # 0 THEN compassEntry[latest].dimensions
        ELSE IF Len(responses) = 0 THEN [axis \in AxisSet |-> Zero]
        ELSE [axis \in AxisSet |->
                IF RLess(Zero, axisScores[axis].weightSum)
                THEN RMax(MinusOne, RMin(One, RDiv(axisScores[axis].total,
                                                   axisScores[axis].weightSum)))
                ELSE Zero]

(* getLatestCompass computing live first and reading the latest snapshot   *)
(* only for a user with no response.                                        *)
getLatestCompassLiveFirst(userId) ==
    LET latest == FindLatest({i \in 1..Len(compassEntry) : compassEntry[i].userId = userId})
        responses == FindResponses(Responses, userId, Null)
        axisScores == LiveResponses(ZeroTotals, responses, 1)
    IN  IF Len(responses) # 0
        THEN [axis \in AxisSet |->
                IF RLess(Zero, axisScores[axis].weightSum)
                THEN RMax(MinusOne, RMin(One, RDiv(axisScores[axis].total,
                                                   axisScores[axis].weightSum)))
                ELSE Zero]
        ELSE IF latest # 0 THEN compassEntry[latest].dimensions
        ELSE NoCompass

getLatestCompass(userId) ==
    LET latest == FindLatest({i \in 1..Len(compassEntry) : compassEntry[i].userId = userId})
        responses == FindResponses(Responses, userId, Null)
        axisScores == LiveResponses(ZeroTotals, responses, 1)
    IN  IF latest # 0 THEN compassEntry[latest].dimensions
        ELSE IF Len(responses) = 0 THEN NoCompass
        ELSE [axis \in AxisSet |->
                IF RLess(Zero, axisScores[axis].weightSum)
                THEN RMax(MinusOne, RMin(One, RDiv(axisScores[axis].total,
                                                   axisScores[axis].weightSum)))
                ELSE Zero]

(* The stored preference taken before the threshold of the request.        *)
EffectiveThresholdStoredFirst(userId, threshold) ==
    IF matchThreshold[userId] # NullNum THEN matchThreshold[userId]
    ELSE IF threshold # NullNum THEN threshold
    ELSE Zero

(* threshold ?? requestingUser?.matchThreshold ?? 0 *)
EffectiveThreshold(userId, threshold) ==
    IF threshold # NullNum THEN threshold
    ELSE IF matchThreshold[userId] # NullNum THEN matchThreshold[userId]
    ELSE Zero

(* findMany without the sharingMode condition *)
DiscoverableAnyMode(userId) == Users \ {userId}

(* findMany({where: {id: {not: userId}, sharingMode: {in: ['PUBLIC', 'SELECTIVE']}}}) *)
Discoverable(userId) ==
    {u \in Users \ {userId} : sharingMode[u] \in {"PUBLIC", "SELECTIVE"}}

(* The orders in which findMany may return a set of rows. *)
Orders(S) == {p \in [1..Cardinality(S) -> S] : \A i, j \in 1..Cardinality(S) : p[i] = p[j] => i = j}

(* The rows a connection map may end with: for each other user the row set  *)
(* last, which is any of the rows between the two users.                    *)
ConnectionMaps(userId) ==
    LET others == {u \in Users \ {userId} : Between(userId, u) # {}}
        rows == {c \in connectionRequest : c.senderId = userId \/ c.receiverId = userId}
    IN  {m \in [others -> rows] : \A u \in others : m[u] \in Between(userId, u)}

(* score >= minThreshold with > in place of >= *)
PassesThresholdStrict(score, minThreshold) == ~ScoreLeq(score, minThreshold) /\ ~IsNaN(minThreshold)

PassesThreshold(score, minThreshold) == ScoreGeq(score, minThreshold)

(* connectionMap.get of a user with no row: conn?.status, conn?.id and     *)
(* conn?.direction are then undefined.                                      *)
(* conn?.status === 'ACCEPTED' ? candidate.walletAddress : this.maskAddress(candidate.walletAddress) *)
ShownAddress(address, conn) ==
    IF conn.status = "ACCEPTED" THEN address ELSE maskAddress(address)

(* Step 5: the loop over the candidate pool, in pool order. *)
RECURSIVE ScoreCandidates(_, _, _, _, _, _, _)
ScoreCandidates(userId, userCompass, mode, minThreshold, pool, connectionMap, i) ==
    IF i > Len(pool) THEN <<>>
    ELSE LET candidate == pool[i]
             compass == getLatestCompass(candidate)
             rest == ScoreCandidates(userId, userCompass, mode, minThreshold, pool,
                                     connectionMap, i + 1)
         IN  IF compass = NoCompass THEN rest
             ELSE LET score == calculateScore(userCompass, compass, mode)
                      conn == IF candidate \in DOMAIN connectionMap
                              THEN connectionMap[candidate] ELSE NoConnection
                  IN  IF PassesThreshold(score, minThreshold)
                      THEN << [userId |-> candidate,
                               walletAddress |-> ShownAddress(WalletAddress[candidate], conn),
                               dimensions |-> compass,
                               score |-> ToFixed3(score),
                               mode |-> mode,
                               connectionStatus |-> conn.status,
                               connectionId |-> conn.id,
                               connectionDirection |->
                                   IF conn = NoConnection THEN Null
                                   ELSE IF conn.senderId = userId THEN "sent"
                                   ELSE "received"] >> \o rest
                      ELSE rest

(* candidates.sort((a, b) => b.score - a.score): a stable sort, so an       *)
(* insertion from the back that passes only over strictly smaller scores.   *)
RECURSIVE InsertByScore(_, _)
InsertByScore(sorted, x) ==
    IF sorted = <<>> THEN <<x>>
    ELSE IF RLess(sorted[Len(sorted)].score, x.score)
    THEN InsertByScore(SubSeq(sorted, 1, Len(sorted) - 1), x) \o <<sorted[Len(sorted)]>>
    ELSE Append(sorted, x)

RECURSIVE SortByScore(_, _)
SortByScore(candidates, n) ==
    IF n = 0 THEN <<>> ELSE InsertByScore(SortByScore(candidates, n - 1), candidates[n])

(* candidates.slice(0, limit): a negative limit counts from the end. *)
SliceTo(candidates, limit) ==
    LET end == IF limit < 0
               THEN (IF Len(candidates) + limit < 0 THEN 0 ELSE Len(candidates) + limit)
               ELSE (IF limit > Len(candidates) THEN Len(candidates) ELSE limit)
    IN  SubSeq(candidates, 1, end)

findMatches(userId, mode, limit, threshold, pool, connectionMap) ==
    LET userCompass == getLatestCompass(userId)
        minThreshold == EffectiveThreshold(userId, threshold)
        candidates == ScoreCandidates(userId, userCompass, mode, minThreshold, pool,
                                      connectionMap, 1)
    IN  IF userCompass = NoCompass THEN <<>>
        ELSE IF Len(pool) = 0 THEN <<>>
        ELSE SliceTo(SortByScore(candidates, Len(candidates)), limit)

(* Math.min(parseInt(limit) || 10, 50), limit defaulting to '10' *)
ParseLimit(limit) ==
    LET parsed == ParseInt(IF limit = Absent THEN <<"1", "0">> ELSE limit)
        n == IF parsed.nan \/ parsed.n = 0 THEN 10 ELSE parsed.n
    IN  IF n < 50 THEN n ELSE 50

(* threshold ? parseFloat(threshold) : undefined *)
ParseThreshold(threshold) == IF threshold = Absent THEN NullNum ELSE ParseFloat(threshold)

(* validModes.includes(mode) ? mode : 'mirror', mode defaulting to 'mirror' *)
ParseMode(mode) == IF mode \in MatchModes THEN mode ELSE "mirror"

(* GET /matches/suggest: the controller and the findMatches call it makes.  *)
SuggestMatches(userId, mode, limit, threshold) ==
    /\ \E pool \in Orders(Discoverable(userId)) :
       \E connectionMap \in ConnectionMaps(userId) :
          out' = [op |-> "findMatches", userId |-> userId, mode |-> ParseMode(mode),
                  limit |-> ParseLimit(limit), threshold |-> ParseThreshold(threshold),
                  thresholdQuery |-> threshold, pool |-> pool,
                  result |-> findMatches(userId, ParseMode(mode), ParseLimit(limit),
                                         ParseThreshold(threshold), pool, connectionMap)]
    /\ UNCHANGED dbVars

(* GET /matches/suggest when the read of getLatestCompass(failing) rejects   *)
(* for a candidate of the pool.  The requester's vector was read (else the  *)
(* call has returned [] before the loop); the await in the loop is in no    *)
(* try block, so the rejection leaves findMatches and the controller.       *)
SuggestMatchesLookupFails(userId, mode, limit, threshold, failing) ==
    /\ getLatestCompass(userId) # NoCompass
    /\ failing \in Discoverable(userId)
    /\ \E pool \in Orders(Discoverable(userId)) :
          out' = [op |-> "findMatchesLookupFailure", userId |-> userId,
                  mode |-> ParseMode(mode), limit |-> ParseLimit(limit),
                  threshold |-> ParseThreshold(threshold), pool |-> pool,
                  failed |-> failing, outcome |-> "rejected"]
    /\ UNCHANGED dbVars

-----------------------------------------------------------------------------
(* Matching: one requester, two discoverable candidates.  The candidates'   *)
(* sharing mode is the state after their POST /matches/settings.            *)

LimitQueries ==
    {Absent, <<"0">>, <<"-", "1">>, <<"a", "b", "c">>, <<"1">>, <<"6", "0">>}

ThresholdQueries ==
    {Absent, <<"0">>, <<"0", ".", "5">>, <<"0", ".", "6">>, <<"1">>, <<"a", "b", "c">>}

ModeQueries == MatchModes \cup {"twin"}

Queries ==
    {[mode |-> m, limit |-> Absent, threshold |-> t] : m \in ModeQueries, t \in ThresholdQueries}
    \cup {[mode |-> "mirror", limit |-> l, threshold |-> Absent] : l \in LimitQueries}

(* Vectors calculateScore is applied to: one value on the core axes, one   *)
(* on the operational axes; and a vector that has a single axis.            *)
Uniform(core, operational) ==
    [axis \in AxisSet |->
        IF axis \in {"governance", "justice"} THEN core ELSE operational]

ScoreVectors ==
    {Uniform(c, o) : c \in {MinusOne, One}, o \in {MinusOne, One}}
    \cup {Uniform(Zero, Zero), [economy |-> Rat(1, 2)]}

UserVectors == {Uniform(One, One), Uniform(Zero, Zero), [economy |-> Rat(1, 2)]}

CalculateScore(userDims, candidateDims, mode) ==
    /\ out' = [op |-> "calculateScore", userDims |-> userDims,
               candidateDims |-> candidateDims, mode |-> mode,
               result |-> calculateScore(userDims, candidateDims, mode)]
    /\ UNCHANGED dbVars

MatchBatches ==
    {<<[questionId |-> "q2", answerValue |-> a]>> : a \in {MinusOne, One}}

StoredThresholds == {Rat(1, 2), Rat(3, 2)}

MaxMatchSnapshots == 1     \* snapshots taken while matching is exercised

InitMatch ==
    /\ userResponse = NoResponses
    /\ compassEntry = <<>>
    /\ sharingMode = [u \in Users |-> IF u = "u1" THEN "GHOST" ELSE "PUBLIC"]
    /\ matchThreshold = [u \in Users |-> NullNum]
    /\ connectionRequest = {}
    /\ poke = {}
    /\ encryptedMessage = <<>>
    /\ chatPublicKey = [u \in Users |-> Null]
    /\ out = NoCall

(* The response of the last request leaves the server; the next request is *)
(* taken up after it.                                                       *)
Deliver ==
    /\ out # NoCall
    /\ out' = NoCall
    /\ UNCHANGED dbVars

NextMatch ==
    \/ Deliver
    \/ /\ out = NoCall
       /\ \/ \E u \in Users, batch \in MatchBatches : SubmitResponses(u, batch)
          \/ Len(compassEntry) < MaxMatchSnapshots /\ SaveSnapshot("u2", Null)
          \/ \E t \in StoredThresholds : SetMatchThreshold("u1", t)
          \/ \E q \in Queries : SuggestMatches("u1", q.mode, q.limit, q.threshold)
          \/ \E failing \in Users :
                SuggestMatchesLookupFails("u1", "mirror", Absent, Absent, failing)
          \/ \E a \in UserVectors, b \in ScoreVectors, mode \in MatchModes :
                CalculateScore(a, b, mode)

SpecMatch == InitMatch /\ [][NextMatch]_vars

-----------------------------------------------------------------------------
(* Privacy: every user has answered question q2 with 1, so every user has  *)
(* a vector; users change their sharing mode, connect, and ask for matches. *)

Answered ==
    {[userId |-> u, questionId |-> "q2", answerValue |-> One] : u \in Users}

ConnectionIds == 1..MaxConnections

InitPrivacy ==
    /\ userResponse = Answered
    /\ compassEntry = <<>>
    /\ sharingMode = [u \in Users |-> "GHOST"]
    /\ matchThreshold = [u \in Users |-> NullNum]
    /\ connectionRequest = {}
    /\ poke = {}
    /\ encryptedMessage = <<>>
    /\ chatPublicKey = [u \in Users |-> Null]
    /\ out = NoCall

NextPrivacy ==
    \/ Deliver
    \/ /\ out = NoCall
       /\ \/ \E u \in Users, mode \in SharingModes : SetSharingMode(u, mode)
          \/ \E sender \in Users, receiver \in Users : SendConnectionRequest(sender, receiver)
          \/ \E id \in ConnectionIds, u \in Users, action \in {"ACCEPTED", "DECLINED"} :
                RespondToConnection(id, u, action)
          \/ \E id \in ConnectionIds, u \in Users : CancelConnection(id, u)
          \/ \E u \in Users : SuggestMatches(u, "mirror", Absent, Absent)

SpecPrivacy == InitPrivacy /\ [][NextPrivacy]_vars

(* ------------------------------------------------------------------------ *)
(* Connection requests of two users whose calls may be served together.     *)
(* ------------------------------------------------------------------------ *)
Pair == {"u1", "u2"}

PairConnectionIds == {1, 2}

InitConnect == InitPrivacy

NextConnect ==
    \/ Deliver
    \/ /\ out = NoCall
       /\ \/ \E mode \in SharingModes : SetSharingMode("u2", mode)
          \/ \E sender \in Pair, receiver \in Pair : SendConnectionRequest(sender, receiver)
          \/ \E sender \in Pair, receiver \in Pair :
                ConcurrentSendConnectionRequests(sender, receiver)
          \/ \E id \in PairConnectionIds, u \in Pair, action \in {"ACCEPTED", "DECLINED"} :
                RespondToConnection(id, u, action)
          \/ \E id \in PairConnectionIds, u \in Pair : CancelConnection(id, u)
          \/ SuggestMatches("u1", "mirror", Absent, Absent)

SpecConnect == InitConnect /\ [][NextConnect]_vars

(* ------------------------------------------------------------------------ *)
(* Pokes and encrypted chat (PokeService, ChatService).                     *)
(* ------------------------------------------------------------------------ *)
MaxMessages == 2      \* messages stored in a run

PublicKeys == {"k1"}

Ciphertexts == {"c1"}

(* BadRequestException and ForbiddenException, as the HTTP layer answers.   *)
BadRequest(message) == [op |-> "throw", status |-> 400, message |-> message]

Forbidden(message) == [op |-> "throw", status |-> 403, message |-> message]

PokeRow(senderId, receiverId) == [senderId |-> senderId, receiverId |-> receiverId]

(* poke.upsert on senderId_receiverId with an empty update: the row is      *)
(* created unless it exists.                                                *)
SendPoke(senderId, receiverId) ==
    /\ UNCHANGED <<userResponse, compassEntry, sharingMode, matchThreshold,
                   connectionRequest, encryptedMessage, chatPublicKey>>
    /\ IF senderId = receiverId
       THEN out' = BadRequest("Cannot poke yourself") /\ UNCHANGED poke
       ELSE poke' = poke \cup {PokeRow(senderId, receiverId)} /\ out' = NoCall

SetPublicKey(userId, publicKey) ==
    /\ chatPublicKey' = [chatPublicKey EXCEPT ![userId] = publicKey]
    /\ out' = NoCall
    /\ UNCHANGED <<userResponse, compassEntry, sharingMode, matchThreshold,
                   connectionRequest, poke, encryptedMessage>>

(* assertMutualPoke passes: both findUnique lookups return a row.           *)
MutualPoke(userA, userB) ==
    PokeRow(userA, userB) \in poke /\ PokeRow(userB, userA) \in poke

MutualPokeRequired == Forbidden("Mutual poke required to exchange messages")

GetPublicKey(requesterId, targetUserId) ==
    /\ out' = IF ~MutualPoke(requesterId, targetUserId) THEN MutualPokeRequired
              ELSE [op |-> "getPublicKey", requesterId |-> requesterId,
                    targetUserId |-> targetUserId,
                    publicKey |-> chatPublicKey[targetUserId]]
    /\ UNCHANGED dbVars

(* sendMessage without assertMutualPoke. *)
SendMessageUnchecked(senderId, receiverId, ciphertext) ==
    /\ UNCHANGED <<userResponse, compassEntry, sharingMode, matchThreshold,
                   connectionRequest, poke, chatPublicKey>>
    /\ IF senderId = receiverId
       THEN out' = BadRequest("Cannot message yourself") /\ UNCHANGED encryptedMessage
       ELSE /\ encryptedMessage' =
                  Append(encryptedMessage,
                         [id |-> Len(encryptedMessage) + 1, senderId |-> senderId,
                          receiverId |-> receiverId, ciphertext |-> ciphertext])
            /\ out' = NoCall

SendMessage(senderId, receiverId, ciphertext) ==
    /\ UNCHANGED <<userResponse, compassEntry, sharingMode, matchThreshold,
                   connectionRequest, poke, chatPublicKey>>
    /\ IF senderId = receiverId
       THEN out' = BadRequest("Cannot message yourself") /\ UNCHANGED encryptedMessage
       ELSE IF ~MutualPoke(senderId, receiverId)
       THEN out' = MutualPokeRequired /\ UNCHANGED encryptedMessage
       ELSE /\ encryptedMessage' =
                  Append(encryptedMessage,
                         [id |-> Len(encryptedMessage) + 1, senderId |-> senderId,
                          receiverId |-> receiverId, ciphertext |-> ciphertext])
            /\ out' = NoCall

(* limit ? parseInt(limit, 10) : 50 *)
ConversationLimit(limit) == IF limit = Absent THEN 50 ELSE ParseInt(limit).n

RECURSIVE Reverse(_)
Reverse(s) == IF s = <<>> THEN <<>> ELSE Append(Reverse(Tail(s)), Head(s))

(* findMany of the messages between the two users, newest first, at most    *)
(* limit + 1 of them, without a cursor; the page is the first limit of      *)
(* them, reversed in place before nextCursor reads items[0].                *)
getConversation(userId, otherUserId, limit) ==
    LET between == SelectSeq(encryptedMessage,
                       LAMBDA m : \/ m.senderId = userId /\ m.receiverId = otherUserId
                                  \/ m.senderId = otherUserId /\ m.receiverId = userId)
        newestFirst == Reverse(between)
        messages == SubSeq(newestFirst, 1,
                           IF Len(newestFirst) < limit + 1 THEN Len(newestFirst)
                           ELSE limit + 1)
        hasMore == Len(messages) > limit
        items == Reverse(IF hasMore THEN SubSeq(messages, 1, limit) ELSE messages)
    IN  [messages |-> [i \in 1..Len(items) |->
                          [id |-> items[i].id, senderId |-> items[i].senderId,
                           ciphertext |-> items[i].ciphertext]],
         nextCursor |-> IF hasMore /\ items # <<>> THEN items[1].id ELSE 0]

GetConversation(userId, otherUserId, limit) ==
    /\ out' = IF ~MutualPoke(userId, otherUserId) THEN MutualPokeRequired
              ELSE [op |-> "getConversation", userId |-> userId,
                    otherUserId |-> otherUserId,
                    result |-> getConversation(userId, otherUserId,
                                               ConversationLimit(limit))]
    /\ UNCHANGED dbVars

InitChat == InitPrivacy

NextChat ==
    \/ Deliver
    \/ /\ out = NoCall
       /\ \/ \E sender \in Users, receiver \in Users : SendPoke(sender, receiver)
          \/ \E key \in PublicKeys : SetPublicKey("u2", key)
          \/ /\ Len(encryptedMessage) < MaxMessages
             /\ \E sender \in Users, receiver \in Users, ciphertext \in Ciphertexts :
                   SendMessage(sender, receiver, ciphertext)
          \/ \E requester \in Users, target \in Users : GetPublicKey(requester, target)
          \/ \E u \in Users, other \in Users, limit \in {Absent, <<"1">>} :
                GetConversation(u, other, limit)

SpecChat == InitChat /\ [][NextChat]_vars

-----------------------------------------------------------------------------
(* The Match Scorer on its own: calculateScore applied to pairs of vectors  *)
(* with axis values in [-1, 1].                                             *)

Mixed ==
    [economy |-> Rat(1, 3), governance |-> Rat(-1, 2), civil_liberties |-> One,
     society |-> Zero, diplomacy |-> MinusOne, environment |-> Rat(1, 2),
     justice |-> Rat(1, 4), technology |-> Rat(-2, 3)]

Negated(a) == [axis \in AxisSet |-> RSub(Zero, Dim(a, axis))]

GridVectors ==
    ScoreVectors
    \cup {Mixed, Negated(Mixed),
          [axis \in AxisSet |-> IF axis = "economy" THEN Rat(1, 2) ELSE Zero],
          [Mixed EXCEPT !["governance"] = Rat(1, 2), !["justice"] = MinusOne],
          [Mixed EXCEPT !["economy"] = MinusOne, !["society"] = Rat(3, 4)]}

InitScore ==
    /\ userResponse = NoResponses
    /\ compassEntry = <<>>
    /\ sharingMode = [u \in Users |-> "GHOST"]
    /\ matchThreshold = [u \in Users |-> NullNum]
    /\ connectionRequest = {}
    /\ poke = {}
    /\ encryptedMessage = <<>>
    /\ chatPublicKey = [u \in Users |-> Null]
    /\ out = NoCall

NextScore ==
    \E a \in GridVectors, b \in GridVectors, mode \in MatchModes : CalculateScore(a, b, mode)

SpecScore == InitScore /\ [][NextScore]_vars

-----------------------------------------------------------------------------
(* Snapshots: two users answer and withdraw question q1 and save            *)
(* snapshots, whole or of questionnaire A; snapshots are compared by id,    *)
(* and u1 asks for matches.                                                 *)

SnapshotIds == 1..(MaxSnapshots + 1)

SnapshotUsers == {"u1", "u2"}

SnapshotBatches ==
    {<<[questionId |-> "q1", answerValue |-> a]>> : a \in {MinusOne, One}}

InitSnapshot ==
    /\ userResponse = NoResponses
    /\ compassEntry = <<>>
    /\ sharingMode = [u \in Users |-> IF u = "u2" THEN "PUBLIC" ELSE "GHOST"]
    /\ matchThreshold = [u \in Users |-> NullNum]
    /\ connectionRequest = {}
    /\ poke = {}
    /\ encryptedMessage = <<>>
    /\ chatPublicKey = [u \in Users |-> Null]
    /\ out = NoCall

NextSnapshot ==
    \/ Deliver
    \/ /\ out = NoCall
       /\ \/ \E u \in SnapshotUsers, batch \in SnapshotBatches : SubmitResponses(u, batch)
          \/ \E u \in SnapshotUsers : ResetForQuestionnaire(u, "A")
          \/ /\ Len(compassEntry) < MaxSnapshots
             /\ \/ \E qn \in {"A", Null} : SaveSnapshot("u1", qn)
                \/ SaveSnapshot("u2", Null)
          \/ \E id1 \in SnapshotIds, id2 \in SnapshotIds : DiffSnapshots(id1, id2)
          \/ SuggestMatches("u1", "mirror", Absent, Absent)

SpecSnapshot == InitSnapshot /\ [][NextSnapshot]_vars

-----------------------------------------------------------------------------
(* Saving: u1 answers and withdraws question q1 and saves snapshots, whole  *)
(* or of questionnaire A.                                                   *)

MaxSaves == 3         \* snapshots saved while the changelogs are followed

InitSave == InitCompass

NextSave ==
    \/ \E batch \in SnapshotBatches : SubmitResponses("u1", batch)
    \/ ResetForQuestionnaire("u1", "A")
    \/ /\ Len(compassEntry) < MaxSaves
       /\ \E qn \in {"A", Null} : SaveSnapshot("u1", qn)

SpecSave == InitSave /\ [][NextSave]_vars

-----------------------------------------------------------------------------
(* Comparison: two snapshots of u1 are stored, each with any of a set of    *)
(* vectors, and are compared by id.                                         *)

Hundredths(economy, society, justice, technology) ==
    [axis \in AxisSet |->
        IF axis = "economy" THEN Rat(economy, 100)
        ELSE IF axis = "society" THEN Rat(society, 200)
        ELSE IF axis = "justice" THEN Rat(justice, 100)
        ELSE IF axis = "technology" THEN Rat(technology, 100)
        ELSE Zero]

(* Vectors calculateCompass returns: each of the 8 axes, values in [-1, 1]. *)
DiffVectors ==
    {v \in GridVectors : DOMAIN v = AxisSet}
    \cup {Hundredths(1, 0, 0, 0), Hundredths(0, 1, 1, -2), Hundredths(2, 3, 0, -1)}

SnapshotRow(id, dimensions, changeLog) ==
    [id |-> id, userId |-> "u1", questionnaireId |-> Null, dimensions |-> dimensions,
     confidence |-> [axis \in AxisSet |-> 1], changeLog |-> changeLog]

InitDiff ==
    /\ userResponse = NoResponses
    /\ \E a \in DiffVectors, b \in DiffVectors :
          compassEntry = << SnapshotRow(1, a, [text |-> "Initial compass snapshot",
                                              changes |-> <<>>]),
                           SnapshotRow(2, b, generateChangeLog(a, b)) >>
    /\ sharingMode = [u \in Users |-> "GHOST"]
    /\ matchThreshold = [u \in Users |-> NullNum]
    /\ connectionRequest = {}
    /\ poke = {}
    /\ encryptedMessage = <<>>
    /\ chatPublicKey = [u \in Users |-> Null]
    /\ out = NoCall

NextDiff == \E id1 \in SnapshotIds, id2 \in SnapshotIds : DiffSnapshots(id1, id2)

SpecDiff == InitDiff /\ [][NextDiff]_vars

-----------------------------------------------------------------------------
(* Responses: two users who have answered q1 with 1 answer q1 and q2 again, *)
(* in batches of one or two entries, a question twice in a batch included,  *)
(* and read the compass.  No response is withdrawn.                         *)

ResponseUsers == {"u1", "u2"}

ResponseEntries ==
    [questionId : {"q1", "q2"}, answerValue : {MinusOne, One}]

ResponseBatches ==
    {<<e>> : e \in ResponseEntries} \cup {<<e, f>> : e \in ResponseEntries, f \in ResponseEntries}

InitResponses ==
    /\ userResponse = {[userId |-> u, questionId |-> "q1", answerValue |-> One] :
                          u \in ResponseUsers}
    /\ compassEntry = <<>>
    /\ sharingMode = [u \in Users |-> "GHOST"]
    /\ matchThreshold = [u \in Users |-> NullNum]
    /\ connectionRequest = {}
    /\ poke = {}
    /\ encryptedMessage = <<>>
    /\ chatPublicKey = [u \in Users |-> Null]
    /\ out = NoCall

NextResponses ==
    \/ \E u \in ResponseUsers, r \in ResponseBatches : SubmitResponses(u, r)
    \/ \E u \in ResponseUsers, qn \in Questionnaires \cup {Null} : CalculateCompass(u, qn)

SpecResponses == InitResponses /\ [][NextResponses]_vars

-----------------------------------------------------------------------------
(* Properties of the Compass Calculator.  out is reset by every write to    *)
(* the tables, so while out.op = "calculateCompass" the tables are the ones *)
(* the call read.                                                           *)

CompassCalled == out.op = "calculateCompass"

(* The responses the call read: the user's, within the questionnaire scope. *)
InScope(q) ==
    /\ Responses[out.userId][q] # NoAnswer
    /\ out.questionnaireId # Null => Question[q].questionnaireId = out.questionnaireId

Loads(q, axis) == \E i \in 1..Len(Question[q].weights) : Question[q].weights[i][1] = axis

WeightOn(q, axis) ==
    Question[q].weights[CHOOSE i \in 1..Len(Question[q].weights) :
                            Question[q].weights[i][1] = axis][2]

RECURSIVE SumOver(_, _)
SumOver(S, f) ==
    IF S = {} THEN Zero
    ELSE LET x == CHOOSE y \in S : TRUE IN RAdd(f[x], SumOver(S \ {x}, f))

Contributing(axis) == {q \in QuestionIds : InScope(q) /\ Loads(q, axis)}

ExpectedScore(axis) ==
    LET R == Contributing(axis)
        total == SumOver(R, [q \in R |-> RMul(Responses[out.userId][q], WeightOn(q, axis))])
        weightSum == SumOver(R, [q \in R |-> RAbs(WeightOn(q, axis))])
    IN  IF RLess(Zero, weightSum)
        THEN (IF RLess(One, RDiv(total, weightSum)) THEN One
              ELSE IF RLess(RDiv(total, weightSum), MinusOne) THEN MinusOne
              ELSE RDiv(total, weightSum))
        ELSE Zero

C2_ConfidenceZeroIffNoWeight ==
    CompassCalled =>
        \A axis \in AxisSet :
            LET carried == \E q \in QuestionIds :
                              InScope(q) /\ Loads(q, axis) /\ WeightOn(q, axis) # Zero
            IN  /\ (out.result.confidence[axis] = 0) <=> ~carried
                /\ ~carried => out.result.dimensions[axis] = Zero

(* C3: score_A = clamp(sum(answerValue * weight_A) / sum(|weight_A|), -1, 1) *)
(* over the responses whose weight vector includes A when the denominator   *)
(* is positive, else 0; confidence_A is the number of those responses; no   *)
(* responses give all zeros; weights 0.8 and -0.4 with answers 1 and 1 give *)
(* economy 1/3 with confidence 2.                                           *)
C3_WeightedAverage ==
    CompassCalled =>
        /\ \A axis \in AxisSet :
              /\ out.result.dimensions[axis] = ExpectedScore(axis)
              /\ out.result.confidence[axis] = Cardinality(Contributing(axis))
        /\ (\A q \in QuestionIds : ~InScope(q)) =>
              \A axis \in AxisSet : /\ out.result.dimensions[axis] = Zero
                                    /\ out.result.confidence[axis] = 0
        /\ (/\ InScope("q1") /\ Responses[out.userId]["q1"] = One
            /\ InScope("q2") /\ Responses[out.userId]["q2"] = One) =>
              /\ out.result.dimensions["economy"] = <<1, 3>>
              /\ out.result.confidence["economy"] = 2

C3_Witness ==
    /\ CompassCalled
    /\ Responses[out.userId]["q1"] = One
    /\ Responses[out.userId]["q2"] = One
    /\ InScope("q1") /\ InScope("q2")
    /\ out.result.dimensions["economy"] = <<1, 3>>
    /\ out.result.confidence["economy"] = 2

OnlyEconomyResponse ==
    /\ CompassCalled
    /\ InScope("q1")
    /\ Responses[out.userId] = [q \in QuestionIds |-> IF q = "q1" THEN One ELSE NoAnswer]

OtherAxesEmpty ==
    \A axis \in AxisSet \ {"economy"} :
        out.result.dimensions[axis] = Zero /\ out.result.confidence[axis] = 0

(* C4 as stated: a single response to the {economy: 0.8} question with      *)
(* answerValue 1 gives economy score 0.8 with confidence 1, and 0 with      *)
(* confidence 0 on the other seven axes.                                    *)
C4_SingleResponseScoresWeight ==
    OnlyEconomyResponse =>
        /\ out.result.dimensions["economy"] = <<4, 5>>
        /\ out.result.confidence["economy"] = 1
        /\ OtherAxesEmpty

(* C4 amended: that response gives economy score 1 (0.8 * 1 / 0.8: the      *)
(* answer value, the weight cancels) with confidence 1, and 0 with          *)
(* confidence 0 on the other seven axes.                                    *)
C4_SingleResponseScoresAnswer ==
    OnlyEconomyResponse =>
        /\ out.result.dimensions["economy"] = One
        /\ out.result.confidence["economy"] = 1
        /\ OtherAxesEmpty

C4_Witness == OnlyEconomyResponse /\ out.result.confidence["economy"] = 1

-----------------------------------------------------------------------------
(* Properties of matchmaking.  While out.op = "findMatches" the tables are  *)
(* the ones the call read, so the vectors, the threshold and the candidate  *)
(* pool of the call can be read off the state.                              *)

MatchCalled == out.op = "findMatches"

Results == {out.result[i] : i \in 1..Len(out.result)}

ResultUsers == {r.userId : r \in Results}

PoolIndex(u) == CHOOSE i \in 1..Len(out.pool) : out.pool[i] = u

(* The candidates of the pool that have a vector, when the requester has one. *)
Scored ==
    IF getLatestCompass(out.userId) = NoCompass THEN {}
    ELSE {out.pool[i] : i \in {j \in 1..Len(out.pool) : getLatestCompass(out.pool[j]) # NoCompass}}

RawScore(c, mode) ==
    calculateScore(getLatestCompass(out.userId), getLatestCompass(c), mode)

InUnit(s) == ScoreGeq(s, Zero) /\ ScoreLeq(s, One)

(* C5: for each of the three modes and every pair of vectors with axis      *)
(* values in [-1, 1], the score calculateScore computes lies in [0, 1], and *)
(* so does the score field of every MatchResult findMatches returns.        *)
C5_ScoreInUnitInterval ==
    /\ out.op = "calculateScore" => InUnit(out.result)
    /\ MatchCalled =>
          /\ \A c \in Scored : InUnit(RawScore(c, out.mode))
          /\ \A r \in Results : RLeq(Zero, r.score) /\ RLeq(r.score, One)

(* A complement score strictly between 0.6 and 1 is returned: the two       *)
(* vectors agree on the core axes and are opposite on two operational axes. *)
C5_Witness ==
    /\ MatchCalled
    /\ out.mode = "complement"
    /\ \E r \in Results : r.score = Rat(831, 1000)

Threshold == EffectiveThreshold(out.userId, out.threshold)

Below(c) == ScoreLeq(RawScore(c, out.mode), Threshold) /\ ~ScoreGeq(RawScore(c, out.mode), Threshold)

AtThreshold(c) == ScoreLeq(RawScore(c, out.mode), Threshold) /\ ScoreGeq(RawScore(c, out.mode), Threshold)

(* C6: a candidate whose score is strictly below the effective threshold is *)
(* not in the output of findMatches; a candidate whose score equals the     *)
(* threshold is in the output whenever the limit does not truncate it.      *)
C6_ThresholdInclusive ==
    MatchCalled =>
        \A c \in Scored :
            /\ Below(c) => c \notin ResultUsers
            /\ AtThreshold(c) /\ out.limit >= Len(out.pool) => c \in ResultUsers

(* One candidate sits exactly on a positive threshold and is returned,      *)
(* another is strictly below it and is not.                                 *)
C6_Witness ==
    /\ MatchCalled
    /\ RLess(Zero, Threshold)
    /\ \E c \in Scored : AtThreshold(c) /\ c \in ResultUsers
    /\ \E c \in Scored : Below(c) /\ c \notin ResultUsers

(* C7: for every limit a client can send, the list findMatches returns has  *)
(* length at most the limit passed to it and at most 50.                    *)
C7_LengthAtMostLimit ==
    MatchCalled => Len(out.result) <= out.limit /\ Len(out.result) <= 50

(* The candidates that pass the filter of the call. *)
Passing == {c \in Scored : ScoreGeq(RawScore(c, out.mode), Threshold)}

(* c comes before d in the ordering: higher rounded score, pool order on a tie. *)
Before(c, d) ==
    LET sc == ToFixed3(RawScore(c, out.mode))
        sd == ToFixed3(RawScore(d, out.mode))
    IN  RLess(sd, sc) \/ (sc = sd /\ PoolIndex(c) < PoolIndex(d))

Min(a, b) == IF a < b THEN a ELSE b

(* C8: the list findMatches returns is ordered by score descending, equal   *)
(* scores stay in pool order, and the list is the first `limit` entries of  *)
(* that ordering of the candidates that passed the filter.                  *)
C8_SortedStablePrefix ==
    MatchCalled =>
        /\ \A i, j \in 1..Len(out.result) :
              i < j =>
                 \/ RLess(out.result[j].score, out.result[i].score)
                 \/ /\ out.result[j].score = out.result[i].score
                    /\ PoolIndex(out.result[i].userId) < PoolIndex(out.result[j].userId)
        /\ ResultUsers \subseteq Passing
        /\ \A c \in ResultUsers, d \in Passing \ ResultUsers : Before(c, d)
        /\ Len(out.result) = IF out.limit < 0 THEN 0 ELSE Min(out.limit, Cardinality(Passing))

HasAccepted(a, b) == \E c \in Between(a, b) : c.status = "ACCEPTED"

(* C9: the output of findMatches never contains the requester, and never a  *)
(* user whose sharing mode at the time of the call is not PUBLIC or         *)
(* SELECTIVE; so a user who has set GHOST is in no result until the user    *)
(* sets another mode.                                                       *)
C9_OnlyDiscoverableOthers ==
    MatchCalled =>
        \A u \in ResultUsers :
            u # out.userId /\ sharingMode[u] \in {"PUBLIC", "SELECTIVE"}

(* A user with a vector is GHOST and left out, while another is returned.   *)
C9_Witness ==
    /\ MatchCalled
    /\ \E u \in Users \ {out.userId} :
          sharingMode[u] = "GHOST" /\ getLatestCompass(u) # NoCompass /\ u \notin ResultUsers
    /\ ResultUsers # {}

(* C10: a MatchResult carries the candidate's full wallet address only if   *)
(* an ACCEPTED connection between requester and candidate exists; in every  *)
(* other case the walletAddress field differs from the full address.        *)
C10_AddressOnlyIfAccepted ==
    MatchCalled =>
        \A r \in Results :
            r.walletAddress = WalletAddress[r.userId] => HasAccepted(out.userId, r.userId)

(* The user has no snapshot and no responses. *)
NoVector(u) ==
    /\ \A i \in 1..Len(compassEntry) : compassEntry[i].userId # u
    /\ \A q \in QuestionIds : Responses[u][q] = NoAnswer

PoolUsers == {out.pool[i] : i \in 1..Len(out.pool)}

(* C11: when the requester has no snapshot and no responses, findMatches    *)
(* returns an empty list; a candidate with no snapshot and no responses is  *)
(* not in the output, and the candidates that have a vector are still       *)
(* evaluated: those that pass the threshold are returned, up to the limit.  *)
C11_NoVectorSkipped ==
    MatchCalled =>
        /\ NoVector(out.userId) => out.result = <<>>
        /\ \A c \in PoolUsers : NoVector(c) => c \notin ResultUsers
        /\ ~NoVector(out.userId) =>
              \A c \in PoolUsers :
                 /\ ~NoVector(c)
                 /\ ScoreGeq(RawScore(c, out.mode), Threshold)
                 /\ out.limit >= Len(out.pool)
                 => c \in ResultUsers

(* One candidate of the pool has no vector and is left out, the other has   *)
(* one and is returned.                                                     *)
C11_Witness ==
    /\ MatchCalled
    /\ ~NoVector(out.userId)
    /\ \E c \in PoolUsers : NoVector(c) /\ c \notin ResultUsers
    /\ \E c \in PoolUsers : ~NoVector(c) /\ c \in ResultUsers

(* C12: when the vector lookup of one candidate fails during findMatches,   *)
(* the call still returns a list: the failed candidate is skipped, the      *)
(* other candidates are scored and returned, and the response tells how     *)
(* many candidates were evaluated and how many were in the pool.            *)
C12_LookupFailureSkipped ==
    out.op = "findMatchesLookupFailure" =>
        /\ out.outcome = "returned"
        /\ "evaluated" \in DOMAIN out
        /\ "result" \in DOMAIN out

-----------------------------------------------------------------------------
(* Properties of the Match Scorer.                                          *)

ScoreCalled(mode) == out.op = "calculateScore" /\ out.mode = mode

(* The two vectors have the same value on every axis of axes, a missing     *)
(* axis read as 0.                                                          *)
SameOn(a, b, axes) == \A axis \in axes : Dim(a, axis) = Dim(b, axis)

ScoreIs(s, t) == ScoreGeq(s, t) /\ ScoreLeq(s, t)

(* C13: in mirror mode the score of a vector against itself is exactly 1,   *)
(* the all-zero vector included.                                            *)
C13_MirrorSelfIsOne ==
    ScoreCalled("mirror") /\ SameOn(out.userDims, out.candidateDims, AxisSet)
        => ScoreIs(out.result, One)

(* All-zero requester vector against all-zero candidate vector: 1. *)
C13_Witness ==
    /\ ScoreCalled("mirror")
    /\ out.userDims = Uniform(Zero, Zero)
    /\ out.candidateDims = Uniform(Zero, Zero)
    /\ ScoreIs(out.result, One)

(* s <= t for two scores with A = 0, (C - sqrt B) / M:                      *)
(* Cs Mt - Ct Ms <= sqrt(Mt^2 Bs) - sqrt(Ms^2 Bt).                          *)
ClosenessLeq(s, t) ==
    SqrtDiffGeq(t.M * t.M * s.B, s.M * s.M * t.B, s.C * t.M - t.C * s.M, 1)

(* C14: the challenger score of a vector against its exact negation is 1,   *)
(* and the challenger score of (a, b) equals the mirror score of (a, -b).   *)
C14_ChallengerIsMirrorOfNegation ==
    ScoreCalled("challenger") =>
        /\ SameOn(out.candidateDims, Negated(out.userDims), AxisSet)
              => ScoreIs(out.result, One)
        /\ ClosenessLeq(out.result, calculateScore(out.userDims, Negated(out.candidateDims), "mirror"))
        /\ ClosenessLeq(calculateScore(out.userDims, Negated(out.candidateDims), "mirror"), out.result)

(* A vector that is not all-zero against its negation: 1. *)
C14_Witness ==
    /\ ScoreCalled("challenger")
    /\ out.userDims = Mixed
    /\ out.candidateDims = Negated(Mixed)
    /\ ScoreIs(out.result, One)

CoreSet == {"governance", "justice"}

(* C15: in complement mode two vectors that agree on all axes score exactly *)
(* 0.6; a score above 0.6 needs a difference on an operational axis and a   *)
(* score below 0.6 needs a difference on a core axis.                       *)
C15_ComplementSplit ==
    ScoreCalled("complement") =>
        /\ SameOn(out.userDims, out.candidateDims, AxisSet) => ScoreIs(out.result, Rat(3, 5))
        /\ SameOn(out.userDims, out.candidateDims, AxisSet \ CoreSet)
              => ScoreLeq(out.result, Rat(3, 5))
        /\ SameOn(out.userDims, out.candidateDims, CoreSet)
              => ScoreGeq(out.result, Rat(3, 5))

(* Two equal vectors that are not all-zero: 0.6. *)
C15_Witness ==
    /\ ScoreCalled("complement")
    /\ out.userDims = Mixed
    /\ out.candidateDims = Mixed
    /\ ScoreIs(out.result, Rat(3, 5))

(* The squared Euclidean distance of two vectors. *)
SqDistance(a, b) ==
    SumOver(AxisSet, [axis \in AxisSet |->
                        RMul(RSub(Dim(a, axis), Dim(b, axis)), RSub(Dim(a, axis), Dim(b, axis)))])

(* C16: for vectors a, b, c with axis values in [-1, 1], if the distance    *)
(* between a and c is at least the distance between a and b then            *)
(* mirror(a, c) <= mirror(a, b).                                            *)
C16_MirrorMonotonic ==
    ScoreCalled("mirror") =>
        \A c \in GridVectors :
            RLeq(SqDistance(out.userDims, out.candidateDims), SqDistance(out.userDims, c))
               => ClosenessLeq(calculateScore(out.userDims, c, "mirror"), out.result)

(* A third vector strictly farther from a than b is, with a strictly        *)
(* smaller mirror score.                                                    *)
C16_Witness ==
    /\ ScoreCalled("mirror")
    /\ \E c \in GridVectors :
          /\ RLess(SqDistance(out.userDims, out.candidateDims), SqDistance(out.userDims, c))
          /\ ~ClosenessLeq(out.result, calculateScore(out.userDims, c, "mirror"))

-----------------------------------------------------------------------------
(* Properties of snapshots.                                                 *)

DiffCalled == out.op = "diffSnapshots"

Stored(id) == \E i \in 1..Len(compassEntry) : compassEntry[i].id = id

(* C17: diffSnapshots(id1, id2) with id1 or id2 not the id of a stored     *)
(* snapshot ends in NotFound: no diff is returned, in particular none       *)
(* computed from a default vector.                                          *)
C17_MissingSnapshotNotFound ==
    (DiffCalled /\ ~(Stored(out.id1) /\ Stored(out.id2))) =>
        /\ out.outcome = "NotFoundException"
        /\ "result" \notin DOMAIN out

(* one id stored, the other not: the case a default vector would fill in *)
C17_Witness ==
    /\ DiffCalled
    /\ Stored(out.id1) /\ ~Stored(out.id2)
    /\ out.outcome = "NotFoundException"

(* C18: comparing a stored snapshot with itself gives delta 0 on each of   *)
(* the 8 axes, totalShift 0 and the changelog "No significant changes".     *)
C18_SelfDiffIsEmpty ==
    (DiffCalled /\ out.id1 = out.id2 /\ Stored(out.id1)) =>
        /\ out.outcome = "returned"
        /\ DOMAIN out.result.deltas = AxisSet
        /\ Cardinality(AxisSet) = 8
        /\ \A axis \in AxisSet : out.result.deltas[axis].delta = Zero
        /\ out.result.summary.totalShift = Zero
        /\ out.result.summary.changeLog =
              [text |-> "No significant changes", changes |-> <<>>]

(* a snapshot that is not the zero vector, compared with itself *)
C18_Witness ==
    /\ DiffCalled /\ out.id1 = out.id2 /\ Stored(out.id1)
    /\ out.outcome = "returned"
    /\ \E axis \in AxisSet : out.result.from.dimensions[axis] # Zero

(* C19: a stored snapshot is never modified or removed: every step of      *)
(* submitResponses, resetForQuestionnaire, saveSnapshot, diffSnapshots and  *)
(* findMatches leaves each existing row, and so what reading it by id       *)
(* returns, as it was when saveSnapshot created it.                         *)
C19_SnapshotsImmutable ==
    [][\A i \in 1..Len(compassEntry) :
          /\ i <= Len(compassEntry')
          /\ compassEntry'[i] = compassEntry[i]]_vars

(* the first snapshot read back after its owner has changed the answers    *)
(* and saved a second, different snapshot of the same scope                 *)
C19_Witness ==
    /\ Len(compassEntry) >= 2
    /\ compassEntry[2].userId = compassEntry[1].userId
    /\ compassEntry[2].questionnaireId = compassEntry[1].questionnaireId
    /\ compassEntry[2].dimensions # compassEntry[1].dimensions
    /\ calculateCompass(Responses, compassEntry[1].userId, Null).dimensions
          # compassEntry[1].dimensions
    /\ DiffCalled /\ out.id1 = 1 /\ out.id2 = 2 /\ out.outcome = "returned"
    /\ out.result.from.dimensions = compassEntry[1].dimensions

-----------------------------------------------------------------------------
(* Properties of the response table.                                        *)

AtMostOneResponse ==
    \A u \in Users, q \in QuestionIds : Cardinality(RowsOf(userResponse, u, q)) <= 1

GivenFor(responses, q) ==
    {responses[i].answerValue : i \in {j \in 1..Len(responses) : responses[j].questionId = q}}

(* the answers of user u after the batch, where the batch gives each       *)
(* question at most one value                                               *)
Latest(u, responses) ==
    [Responses EXCEPT ![u] =
        [q \in QuestionIds |->
            IF GivenFor(responses, q) = {} THEN @[q]
            ELSE CHOOSE v \in GivenFor(responses, q) : TRUE]]

(* C20: after every submitResponses call there is at most one row for each *)
(* (user, question), also when the batch names a question twice and its     *)
(* upserts run concurrently; the row of each question the batch names holds *)
(* a value the batch gives it and no other row changes, so a re-answer      *)
(* replaces the stored answerValue and calculateCompass is computed from    *)
(* the latest answer of each question.                                      *)
C20_OneResponsePerQuestion ==
    [][/\ AtMostOneResponse'
       /\ \A u \in ResponseUsers, r \in ResponseBatches :
             SubmitResponses(u, r) =>
                /\ \A q \in QuestionIds :
                      IF GivenFor(r, q) = {}
                      THEN RowsOf(userResponse', u, q) = RowsOf(userResponse, u, q)
                      ELSE \E v \in GivenFor(r, q) :
                              RowsOf(userResponse', u, q) =
                                 {[userId |-> u, questionId |-> q, answerValue |-> v]}
                /\ \A w \in Users \ {u}, q \in QuestionIds :
                      RowsOf(userResponse', w, q) = RowsOf(userResponse, w, q)
                /\ (\A q \in QuestionIds : Cardinality(GivenFor(r, q)) <= 1) =>
                      calculateCompass(Responses', u, Null)
                         = calculateCompass(Latest(u, r), u, Null)]_vars

(* u1 has answered q1 again, with -1 in the place of 1, and has answered   *)
(* q2; the compass read afterwards is the one of -1 and 1                   *)
C20_Witness ==
    /\ RowsOf(userResponse, "u1", "q1")
          = {[userId |-> "u1", questionId |-> "q1", answerValue |-> MinusOne]}
    /\ RowsOf(userResponse, "u1", "q2")
          = {[userId |-> "u1", questionId |-> "q2", answerValue |-> One]}
    /\ out.op = "calculateCompass" /\ out.userId = "u1" /\ out.questionnaireId = Null
    /\ out.result.dimensions["economy"] = MinusOne

-----------------------------------------------------------------------------
(* Properties of vector resolution.                                         *)

SnapshotsOf(u) == {i \in 1..Len(compassEntry) : compassEntry[i].userId = u}

NewestSnapshotOf(u) == CHOOSE i \in SnapshotsOf(u) : \A j \in SnapshotsOf(u) : j <= i

LiveVector(u) == calculateCompass(Responses, u, Null).dimensions

(* the vector of the newest snapshot, of whatever scope; the live vector   *)
(* for a user with no snapshot                                              *)
SnapshotFirst(u) ==
    IF SnapshotsOf(u) # {} THEN compassEntry[NewestSnapshotOf(u)].dimensions
    ELSE LiveVector(u)

(* C21: findMatches takes the vector of the requester and of each          *)
(* candidate from the user's most recently created snapshot when there is   *)
(* one, whatever the responses are now, and computes it from the current    *)
(* responses only for a user with no snapshot.                              *)
C21_SnapshotFirst ==
    MatchCalled =>
        \A i \in 1..Len(out.result) :
            /\ out.result[i].dimensions = SnapshotFirst(out.result[i].userId)
            /\ out.result[i].score =
                  ToFixed3(calculateScore(SnapshotFirst(out.userId),
                                          SnapshotFirst(out.result[i].userId), out.mode))

(* requester and candidate both have a snapshot that their responses no    *)
(* longer give, and the two live vectors would score differently            *)
C21_Witness ==
    /\ MatchCalled
    /\ SnapshotsOf(out.userId) # {} /\ SnapshotFirst(out.userId) # LiveVector(out.userId)
    /\ ~NoVector(out.userId) /\ \E q \in QuestionIds : Responses[out.userId][q] # NoAnswer
    /\ \E i \in 1..Len(out.result) :
          LET c == out.result[i].userId
          IN  /\ SnapshotsOf(c) # {} /\ SnapshotFirst(c) # LiveVector(c)
              /\ \E q \in QuestionIds : Responses[c][q] # NoAnswer
              /\ out.result[i].score #
                    ToFixed3(calculateScore(LiveVector(out.userId), LiveVector(c), out.mode))

(* C22: for a user with no snapshot and at least one response, the vector  *)
(* findMatches derives live is, axis for axis, the dimensions               *)
(* calculateCompass returns for the same responses.                         *)
C22_LiveEqualsCalculateCompass ==
    MatchCalled =>
        \A i \in 1..Len(out.result) :
            LET c == out.result[i].userId
            IN  (SnapshotsOf(c) = {} /\ \E q \in QuestionIds : Responses[c][q] # NoAnswer) =>
                    /\ DOMAIN out.result[i].dimensions = AxisSet
                    /\ \A axis \in AxisSet :
                          out.result[i].dimensions[axis]
                             = calculateCompass(Responses, c, Null).dimensions[axis]

(* a returned candidate with no snapshot whose answer loads an axis with   *)
(* a negative weight                                                        *)
C22_Witness ==
    /\ MatchCalled
    /\ \E i \in 1..Len(out.result) :
          LET c == out.result[i].userId
          IN  /\ SnapshotsOf(c) = {}
              /\ Responses[c]["q2"] # NoAnswer
              /\ out.result[i].dimensions["economy"] # Zero
              /\ out.result[i].dimensions["technology"] # Zero

-----------------------------------------------------------------------------
(* Properties of the threshold.                                             *)

Supplied == out.thresholdQuery # Absent

StoredThreshold == matchThreshold[out.userId]

(* C23: findMatches filters with the threshold of the request whenever the *)
(* request carries one, an explicit 0 included; with the requester's stored *)
(* matchThreshold when the request carries none; with 0 when neither is     *)
(* there.  A stored preference does not replace a threshold of the request. *)
C23_ThresholdPrecedence ==
    (MatchCalled /\ out.limit >= Len(out.pool)) =>
        LET expected == IF Supplied THEN ParseFloat(out.thresholdQuery)
                        ELSE IF StoredThreshold # NullNum THEN StoredThreshold
                        ELSE Zero
        IN  \A c \in Scored :
                c \in ResultUsers <=> ScoreGeq(RawScore(c, out.mode), expected)

(* an explicit 0 against a stored preference that would have excluded a    *)
(* candidate                                                                *)
C23_Witness ==
    /\ MatchCalled
    /\ out.thresholdQuery = <<"0">>
    /\ StoredThreshold # NullNum /\ RLess(Zero, StoredThreshold)
    /\ \E c \in Scored :
          /\ c \in ResultUsers
          /\ ~ScoreGeq(RawScore(c, out.mode), StoredThreshold)

-----------------------------------------------------------------------------
(* Properties of the comparison of snapshots.                               *)

Returned == DiffCalled /\ out.outcome = "returned"

AbsDelta(axis) == RAbs(out.result.deltas[axis].delta)

AxisIndex(axis) == CHOOSE i \in 1..Len(AXES) : AXES[i] = axis

RECURSIVE AbsDeltaSum(_)
AbsDeltaSum(i) == IF i = 0 THEN Zero ELSE RAdd(AbsDeltaSum(i - 1), AbsDelta(AXES[i]))

(* biggestShift is an axis of maximal |delta|, the first in canonical      *)
(* order of those that tie, and carries that axis's delta                   *)
BiggestIsFirstMaximal ==
    LET b == out.result.summary.biggestShift
    IN  /\ b.axis \in AxisSet
        /\ b.delta = out.result.deltas[b.axis].delta
        /\ b.label = AXIS_LABELS[b.axis]
        /\ \A axis \in AxisSet :
              /\ ~RLess(AbsDelta(b.axis), AbsDelta(axis))
              /\ AxisIndex(axis) < AxisIndex(b.axis) => RLess(AbsDelta(axis), AbsDelta(b.axis))

DeltasAreDifferences ==
    \A axis \in AxisSet :
        out.result.deltas[axis].delta
           = RSub(compassEntry[out.id2].dimensions[axis], compassEntry[out.id1].dimensions[axis])

(* C24, as stated: biggestShift is the first axis of maximal |delta| and   *)
(* totalShift is the sum of the 8 absolute deltas.                          *)
C24_TotalShiftIsSum ==
    Returned =>
        /\ DeltasAreDifferences
        /\ BiggestIsFirstMaximal
        /\ out.result.summary.totalShift = AbsDeltaSum(Len(AXES))

(* C24: biggestShift is an axis whose |delta| is maximal over the 8 axes,  *)
(* the first in canonical order when several tie (economy when all deltas   *)
(* are 0); totalShift is the sum of the 8 absolute deltas rounded to 3      *)
(* decimals: the nearest thousandth, the larger of two equally near.        *)
C24_BiggestShiftAndRoundedTotal ==
    Returned =>
        /\ DeltasAreDifferences
        /\ BiggestIsFirstMaximal
        /\ LET t == out.result.summary.totalShift
               sum == AbsDeltaSum(Len(AXES))
           IN  /\ 1000 % t[2] = 0
               /\ RLess(RSub(sum, Rat(1, 2000)), t)
               /\ ~RLess(RAdd(sum, Rat(1, 2000)), t)

(* governance and justice tie for the maximum and governance, which is     *)
(* not the first axis, is reported                                          *)
C24_Witness ==
    /\ Returned
    /\ out.result.summary.biggestShift.axis = "governance"
    /\ AbsDelta("justice") = AbsDelta("governance")
    /\ RLess(AbsDelta("economy"), AbsDelta("governance"))
    /\ RLess(Zero, AbsDelta("economy"))

-----------------------------------------------------------------------------
(* Properties of the changelog.                                             *)

ChangeLog == out.result.summary.changeLog

(* the axes whose |delta| is above 0.01 *)
Material == {axis \in AxisSet : RLess(Rat(1, 100), AbsDelta(axis))}

MaterialInOrder == SelectSeq(AXES, LAMBDA axis : axis \in Material)

(* C25: the changelog lists an axis exactly when the absolute difference   *)
(* of its two values is above 0.01 (an axis whose absolute delta is 0.01 or *)
(* less is not listed), in canonical order, as an increase when the new     *)
(* value is the greater and a decrease otherwise; it is the sentence "No    *)
(* significant changes" exactly when no axis is listed.                     *)
C25_ListedIffAboveThreshold ==
    Returned =>
        /\ Len(ChangeLog.changes) = Len(MaterialInOrder)
        /\ \A i \in 1..Len(ChangeLog.changes) :
              i <= Len(MaterialInOrder) =>
                 /\ ChangeLog.changes[i].label = AXIS_LABELS[MaterialInOrder[i]]
                 /\ ChangeLog.changes[i].direction =
                       IF RLess(Zero, out.result.deltas[MaterialInOrder[i]].delta)
                       THEN "up" ELSE "down"
        /\ ChangeLog.text = "No significant changes" <=> Material = {}

-----------------------------------------------------------------------------
(* Properties of saved changelogs.                                          *)

InitialSentinel == [text |-> "Initial compass snapshot", changes |-> <<>>]

(* the snapshots of the same user and questionnaire scope created before   *)
(* snapshot i                                                               *)
EarlierInScope(i) ==
    {j \in 1..(i - 1) : /\ compassEntry[j].userId = compassEntry[i].userId
                        /\ compassEntry[j].questionnaireId = compassEntry[i].questionnaireId}

NewestEarlier(i) == CHOOSE j \in EarlierInScope(i) : \A k \in EarlierInScope(i) : k <= j

(* C26: a snapshot carries the changelog "Initial compass snapshot"        *)
(* exactly when its user had no earlier snapshot of the same questionnaire  *)
(* scope; each later snapshot of the scope carries the changelog of its     *)
(* dimensions against those of the most recently created earlier snapshot   *)
(* of the scope, which is never the initial sentence.                       *)
C26_InitialOnlyFirstInScope ==
    \A i \in 1..Len(compassEntry) :
        /\ compassEntry[i].changeLog = InitialSentinel <=> EarlierInScope(i) = {}
        /\ EarlierInScope(i) # {} =>
              compassEntry[i].changeLog =
                 generateChangeLog(compassEntry[NewestEarlier(i)].dimensions,
                                   compassEntry[i].dimensions)

(* a third snapshot of a scope whose first two differ: its changelog is    *)
(* the one against the second and not the one against the first             *)
C26_Witness ==
    /\ Len(compassEntry) >= 3
    /\ EarlierInScope(3) = {1, 2}
    /\ compassEntry[3].changeLog
          # generateChangeLog(compassEntry[1].dimensions, compassEntry[3].dimensions)
    /\ compassEntry[3].changeLog.text = "No significant changes"

-----------------------------------------------------------------------------
(* Properties of connection requests.                                       *)

(* a step that is a call of user u *)
CallBy(u) ==
    \/ \E id \in ConnectionIds, action \in {"ACCEPTED", "DECLINED"} :
          RespondToConnection(id, u, action)
    \/ \E receiver \in Users : SendConnectionRequest(u, receiver)
    \/ \E id \in ConnectionIds : CancelConnection(id, u)

(* row c is not ACCEPTED before the step and is ACCEPTED after it *)
BecomesAccepted(c) ==
    /\ c.status # "ACCEPTED"
    /\ \E d \in RowsWithId(connectionRequest', c.id) : d.status = "ACCEPTED"

(* C27: a connection request becomes ACCEPTED only in a call of the user   *)
(* who is its receiver while it is PENDING (respondToConnection with        *)
(* ACCEPTED, or sendConnectionRequest toward its sender); no call of        *)
(* another user, the sender included, makes it ACCEPTED, and no request is  *)
(* created ACCEPTED.                                                        *)
C27_AcceptedOnlyByReceiver ==
    [][/\ \A d \in connectionRequest' :
             RowsWithId(connectionRequest, d.id) = {} => d.status # "ACCEPTED"
       /\ \A c \in connectionRequest :
             BecomesAccepted(c) =>
                /\ c.status = "PENDING"
                /\ \/ RespondToConnection(c.id, c.receiverId, "ACCEPTED")
                   \/ SendConnectionRequest(c.receiverId, c.senderId)
                /\ \A u \in Users \ {c.receiverId} : ~CallBy(u)]_vars

(* a request was accepted, and a call to respond by a user who is not its  *)
(* receiver has been refused                                                *)
C27_Witness ==
    /\ \E c \in connectionRequest : c.status = "ACCEPTED"
    /\ out = Thrown("Only the receiver can respond to a connection request")

(* the status of row c is another after the step *)
StatusChanges(c) ==
    \E d \in RowsWithId(connectionRequest', c.id) : d.status # c.status

Refused == out'.op = "throw" /\ connectionRequest' = connectionRequest

StatusOf(id) == {c.status : c \in RowsWithId(connectionRequest, id)}

(* the calls the claim lists end in an error and leave the table as it was *)
ListedCallsRefused ==
    /\ \A id \in ConnectionIds, u \in Users, action \in {"ACCEPTED", "DECLINED"} :
          (RespondToConnection(id, u, action)
             /\ StatusOf(id) \cap {"ACCEPTED", "DECLINED", "CANCELLED"} # {}) => Refused
    /\ \A id \in ConnectionIds, u \in Users :
          (CancelConnection(id, u)
             /\ \/ StatusOf(id) \cap {"ACCEPTED", "DECLINED", "CANCELLED"} # {}
                \/ \E c \in RowsWithId(connectionRequest, id) : c.senderId # u) => Refused
    /\ \A u \in Users, v \in Users :
          (SendConnectionRequest(u, v)
             /\ \/ u = v
                \/ \E c \in Between(u, v) : c.status = "ACCEPTED"
                \/ \E c \in Between(u, v) : c.status = "PENDING" /\ c.senderId = u) => Refused

AcceptedStays ==
    \A c \in connectionRequest : c.status = "ACCEPTED" => c \in connectionRequest'

(* C28, as stated: only a PENDING request changes status; the listed calls *)
(* fail and change nothing; an ACCEPTED request stays ACCEPTED.             *)
C28_OnlyPendingChanges ==
    [][/\ \A c \in connectionRequest : StatusChanges(c) => c.status = "PENDING"
       /\ ListedCallsRefused
       /\ AcceptedStays]_vars

(* C28: respondToConnection and cancelConnection change the status of a    *)
(* PENDING request only; the only other change of status is a DECLINED or   *)
(* CANCELLED request returning to PENDING when one of its two users sends a *)
(* request to the other.  respondToConnection and cancelConnection on a     *)
(* request that is ACCEPTED, DECLINED or CANCELLED, cancelConnection by a    *)
(* non-sender, and sendConnectionRequest to oneself, to an ACCEPTED partner  *)
(* or repeating one's own PENDING request fail and leave every row as it     *)
(* was; an ACCEPTED request stays ACCEPTED.                                  *)
C28_PendingOrRerequest ==
    [][/\ \A c \in connectionRequest :
             StatusChanges(c) =>
                \/ c.status = "PENDING"
                \/ /\ c.status \in {"DECLINED", "CANCELLED"}
                   /\ \A d \in RowsWithId(connectionRequest', c.id) : d.status = "PENDING"
                   /\ \/ SendConnectionRequest(c.senderId, c.receiverId)
                      \/ SendConnectionRequest(c.receiverId, c.senderId)
       /\ ListedCallsRefused
       /\ AcceptedStays]_vars

(* the sender's call to cancel an accepted request has been refused        *)
C28_Witness ==
    /\ \E c \in connectionRequest : c.status = "ACCEPTED"
    /\ out = Thrown("Cannot cancel a ACCEPTED request")

(* ------------------------------------------------------------------------ *)
(* Connection records of a pair of users.                                   *)
(* ------------------------------------------------------------------------ *)

(* C29: between any two users there is at most one connection record,       *)
(* whichever of them sent it and however their calls are served, so a       *)
(* match lookup reads one status for the pair.                              *)
C29_OneRecordPerPair ==
    \A a \in Users : \A b \in Users \ {a} : Cardinality(Between(a, b)) <= 1

(* ------------------------------------------------------------------------ *)
(* Chat behind mutual pokes.                                                *)
(* ------------------------------------------------------------------------ *)
Poked(a, b) == a # b /\ PokeRow(a, b) \in poke /\ PokeRow(b, a) \in poke

StoredBetweenPoked ==
    \A i \in 1..Len(encryptedMessage) :
        Poked(encryptedMessage[i].senderId, encryptedMessage[i].receiverId)

ReadsOnlyForPoked ==
    /\ out.op = "getPublicKey" => Poked(out.requesterId, out.targetUserId)
    /\ out.op = "getConversation" => Poked(out.userId, out.otherUserId)

(* What a sendMessage call of sender to receiver does in this step. *)
SendMessageOutcome(sender, receiver, ciphertext) ==
    IF Poked(sender, receiver)
    THEN /\ Len(encryptedMessage') = Len(encryptedMessage) + 1
         /\ SubSeq(encryptedMessage', 1, Len(encryptedMessage)) = encryptedMessage
         /\ LET stored == encryptedMessage'[Len(encryptedMessage')]
            IN  /\ stored.senderId = sender
                /\ stored.receiverId = receiver
                /\ stored.ciphertext = ciphertext
         /\ out' = NoCall
    ELSE /\ encryptedMessage' = encryptedMessage
         /\ out'.op = "throw"
         /\ out'.status = IF sender = receiver THEN 400 ELSE 403

(* C30: sendMessage stores the message exactly when sender and receiver     *)
(* differ and have poked each other at the time of the call, and otherwise  *)
(* fails (400 for oneself, 403 without mutual poke) and stores nothing; no  *)
(* other step adds, changes or removes a message; every stored message is   *)
(* between two users who have poked each other; and getPublicKey and        *)
(* getConversation return a result only for such pairs.                     *)
C30_ChatOnlyAfterMutualPoke ==
    /\ [](StoredBetweenPoked /\ ReadsOnlyForPoked)
    /\ [][/\ \A sender \in Users, receiver \in Users, ciphertext \in Ciphertexts :
               SendMessage(sender, receiver, ciphertext)
                   => SendMessageOutcome(sender, receiver, ciphertext)
          /\ encryptedMessage' # encryptedMessage
                => \E sender \in Users, receiver \in Users, ciphertext \in Ciphertexts :
                      SendMessage(sender, receiver, ciphertext)]_vars

(* A message is stored between two users who poked each other, and a call   *)
(* was refused for want of a mutual poke while u3 has poked u1 and u1 has   *)
(* not poked back.                                                          *)
C30_Witness ==
    /\ Len(encryptedMessage) >= 1
    /\ out = MutualPokeRequired
    /\ PokeRow("u3", "u1") \in poke
    /\ PokeRow("u1", "u3") \notin poke

====
